---- MODULE Spec2Model ----
(***************************************************************************)
(* Model of the mbdara-service point-of-sale backend: the POST             *)
(* /transactions handler (createTransaction) of src/routes/transactions.ts *)
(* running as concurrent requests against one PostgreSQL database.         *)
(*                                                                         *)
(* Money.  The handler computes with JavaScript numbers parsed from        *)
(* numeric columns; the model computes the same expressions exactly, in    *)
(* integer "micros": one cent is PctDenominator micros, so that a price    *)
(* with two decimals times a percentage with two decimals, divided by 100, *)
(* is an integer.  Binary floating-point drift is not modelled.  A value   *)
(* written to a numeric(10,2) column is rounded to cents by the database   *)
(* (ToNumeric2), a value written to a numeric(10,0) column to whole units. *)
(*                                                                         *)
(* Concurrency.  Every awaited database round trip is one step; the        *)
(* synchronous code that follows it, up to the next round trip, belongs to *)
(* the same step.  Statements issued on the handle `tx` inside             *)
(* db.transaction write to a buffer of that request and become visible to  *)
(* other requests at COMMIT only; an UPDATE of a product row waits while   *)
(* another open transaction has updated the same row (READ COMMITTED row   *)
(* locks).                                                                 *)
(***************************************************************************)
EXTENDS Integers, Sequences, FiniteSets, TLC

VARIABLES products, discounts, transactions, transactionItems,
          transactionIdSeq, transactionItemIdSeq, req,
          productIdSeq, discountIdSeq, call,
          clients, idle, pendingQueue, organization, member

vars == <<products, discounts, transactions, transactionItems,
          transactionIdSeq, transactionItemIdSeq, req,
          productIdSeq, discountIdSeq, call,
          clients, idle, pendingQueue, organization, member>>

\* the connection pool: its open clients, the idle ones and the callers waiting
\* for one
poolVars == <<clients, idle, pendingQueue>>

\* the pool, and the tables of neon_auth reached through pool.query
sharedVars == <<clients, idle, pendingQueue, organization, member>>

\* the state of the calls of the other endpoints, and the serial ids they draw
apiVars == <<productIdSeq, discountIdSeq, call>>

----------------------------------------------------------------------------
(* Bounds of the model *)

MaxRequests == 2
MaxItems == 2
MaxQty == 3
MaxStock == 3
MaxCalls == 2
MaxProducts == 4
MaxDiscounts == 4

Requests == 1..MaxRequests

\* the calls of the other endpoints that may be in flight together
Callers == 1..MaxCalls

\* quantity: t.Number(), with no minimum: negative, zero and positive quantities
Quantities == -1..MaxQty

----------------------------------------------------------------------------
(* Values *)

None == <<>>
Some(x) == <<x>>
IsSome(o) == o # <<>>
Val(o) == o[1]

\* percentage is numeric(5,2) and the handler divides it by 100
PctDenominator == 10000
Cent == PctDenominator
Unit == 100 * Cent

RECURSIVE SumSeq(_)
SumSeq(s) == IF s = <<>> THEN 0 ELSE Head(s) + SumSeq(Tail(s))

Abs(x) == IF x < 0 THEN -x ELSE x

\* PostgreSQL rounds a numeric to the column's scale, ties away from zero
RoundHalfAway(x, m) ==
  IF x >= 0 THEN (x + m \div 2) \div m ELSE -(((-x) + m \div 2) \div m)

\* micros -> cents, as stored in a numeric(10,2) column
ToNumeric2(x) == RoundHalfAway(x, Cent)

\* micros -> whole units, as stored in a numeric(10,0) column
ToNumeric0(x) == RoundHalfAway(x, Unit)

----------------------------------------------------------------------------
(* The database at start: two organizations, three products, two discount
   codes and the sessions of neon_auth *)

\* product rows: price in cents (numeric(10,2)), cogs and bundlePrice in whole
\* units (numeric(10,0)), bundleQuantity, bundlePrice and organizationId nullable
Catalog ==
  (1 :> [name |-> "kopi", price |-> 99, cogs |-> 1, stock |-> MaxStock,
         bundleQuantity |-> Some(2), bundlePrice |-> Some(1),
         organizationId |-> Some("orgX")]) @@
  (2 :> [name |-> "teh", price |-> 150, cogs |-> 1, stock |-> 1,
         bundleQuantity |-> None, bundlePrice |-> None,
         organizationId |-> Some("orgX")]) @@
  (3 :> [name |-> "susu", price |-> 200, cogs |-> 1, stock |-> 2,
         bundleQuantity |-> None, bundlePrice |-> None,
         organizationId |-> Some("orgY")])

\* discount rows: percentage in hundredths of a percent (numeric(5,2))
DiscountRows ==
  { [id |-> 1, code |-> "HALF1", type |-> "individual_item", percentage |-> 5000,
     productId |-> Some(1), organizationId |-> Some("orgX")],
    [id |-> 2, code |-> "ALL25", type |-> "for_all_item", percentage |-> 2500,
     productId |-> None, organizationId |-> Some("orgX")] }

\* the current time, and the rows of neon_auth.session: a session of each
\* organization (one of them expiring now), one that has expired, one with no
\* active organization, and one that has expired and has none
Now == 5

Sessions ==
  { [token |-> "tokX", activeOrganizationId |-> Some("orgX"), expiresAt |-> 9],
    [token |-> "tokY", activeOrganizationId |-> Some("orgY"), expiresAt |-> Now],
    [token |-> "tokOld", activeOrganizationId |-> Some("orgX"), expiresAt |-> 1],
    [token |-> "tokLone", activeOrganizationId |-> None, expiresAt |-> 9],
    [token |-> "tokOldLone", activeOrganizationId |-> None, expiresAt |-> 1] }

\* the Authorization header as authHeader.split(" ") sees it: absent, or the
\* sequence of its parts
AuthHeaders ==
  { None, Some(<<"Bearer", "tokX">>), Some(<<"Bearer", "tokY">>),
    Some(<<"Bearer", "tokOld">>), Some(<<"Bearer", "tokLone">>),
    Some(<<"Bearer", "tokNone">>), Some(<<"Basic", "tokX">>),
    Some(<<"Bearer", "tokX", "">>), Some(<<"Bearer", "">>), Some(<<"tokX">>),
    Some(<<"Bearer", "\ttokY">>), Some(<<"Bearer", "tokOldLone">>) }

\* the headers of the calls that create transactions: a session of each
\* organization and no header
OrderHeaders == { None, Some(<<"Bearer", "tokX">>), Some(<<"Bearer", "tokY">>) }

ProductIds == DOMAIN Catalog

\* an id no product row has
MissingId == Cardinality(ProductIds) + 1

\* body.discount_code: absent (""), two stored codes, one unknown code
DiscountCodes == {"", "HALF1", "ALL25", "NOPE"}

RECURSIVE SeqsUpTo(_, _)
SeqsUpTo(S, n) ==
  IF n = 0 THEN {<<>>}
  ELSE LET shorter == SeqsUpTo(S, n - 1)
       IN  shorter \cup { Append(s, x) : s \in { t \in shorter : Len(t) = n - 1 }, x \in S }

\* body.items: TransactionItemCreate = { product_id, quantity }
ItemInputs ==
  [product_id : ProductIds \cup {MissingId}, quantity : Quantities]

\* the request bodies of the single-request specification
Bodies ==
  [items : SeqsUpTo(ItemInputs, MaxItems), discount_code : DiscountCodes,
   created_at : {None}]

\* the headers of the concurrent calls: a session of the first organization
ConcurrentHeaders == { Some(<<"Bearer", "tokX">>) }

\* the products the concurrent calls order: those of the first organization
ConcurrentProductIds == { p \in ProductIds : Catalog[p].organizationId = Some("orgX") }

\* the request bodies of the concurrent specification: no item, one item of
\* a stored product for one unit or for the first product's whole stock, or two
\* items of one unit each (of the same product or of two); and one order that
\* gives a discount code
ConcurrentBodies ==
  [items : { <<>> }
           \cup { <<i>> : i \in [product_id : ConcurrentProductIds, quantity : {1, MaxStock}] }
           \cup { <<i, j>> : i, j \in [product_id : ConcurrentProductIds, quantity : {1}] },
   discount_code : {""}, created_at : {None}]
  \cup { [items |-> <<[product_id |-> 1, quantity |-> 1]>>, discount_code |-> "ALL25",
          created_at |-> None] }

----------------------------------------------------------------------------
(* Authorization: src/utils/auth.ts *)

\* String.prototype.trim on the tokens of the model: one of them starts with a
\* tab (the header "Bearer", a space, a tab and the token)
Trim(token) == IF token = "\ttokY" THEN "tokY" ELSE token

\* extractBearerToken: the token of "Bearer <token>", else null
ExtractBearerToken(authHeader) ==
  IF ~IsSome(authHeader) THEN None
  ELSE LET parts == Val(authHeader)
       IN  IF Len(parts) # 2 \/ parts[1] # "Bearer" THEN None
           ELSE Some(Trim(parts[2]))

AuthOk(organizationId) == [organizationId |-> Some(organizationId), error |-> None]
AuthError(error) == [organizationId |-> None, error |-> Some(error)]

\* mutant: the active organization is checked before the expiry
GetActiveOrganizationId_OrganizationFirst(token, queryFails) ==
  IF queryFails THEN AuthError("DatabaseError")
  ELSE LET trimmedToken == Trim(token)
           rows == { session \in Sessions : session.token = trimmedToken }
       IN  IF rows = {} THEN AuthError("SessionNotFound")
           ELSE LET session == CHOOSE row \in rows : TRUE
                IN  IF ~IsSome(session.activeOrganizationId)
                    THEN AuthError("NoActiveOrganization")
                    ELSE IF session.expiresAt < Now THEN AuthError("SessionExpired")
                         ELSE AuthOk(Val(session.activeOrganizationId))

\* getActiveOrganizationId: the session of the token, its expiry and its
\* active organization; a failing query is caught and reported as an error
GetActiveOrganizationId(token, queryFails) ==
  IF queryFails THEN AuthError("DatabaseError")
  ELSE LET trimmedToken == Trim(token)
           rows == { session \in Sessions : session.token = trimmedToken }
       IN  IF rows = {} THEN AuthError("SessionNotFound")
           ELSE LET session == CHOOSE row \in rows : TRUE
                IN  IF session.expiresAt < Now THEN AuthError("SessionExpired")
                    ELSE IF ~IsSome(session.activeOrganizationId)
                         THEN AuthError("NoActiveOrganization")
                         ELSE AuthOk(Val(session.activeOrganizationId))

\* getOrganizationIdFromHeaders; an empty token is falsy, as a missing one
GetOrganizationIdFromHeaders(headers, queryFails) ==
  IF ~IsSome(headers) THEN AuthError("MissingHeader")
  ELSE LET token == ExtractBearerToken(headers)
       IN  IF ~IsSome(token) \/ token = Some("") THEN AuthError("MalformedHeader")
           ELSE LET result == GetActiveOrganizationId(Val(token), queryFails)
                IN  IF IsSome(result.error) THEN AuthError(Val(result.error))
                    ELSE IF ~IsSome(result.organizationId)
                         THEN AuthError("NoSession")
                         ELSE AuthOk(Val(result.organizationId))

\* mutant: the guard of the handlers is missing
Unauthorized_Never(authResult) == FALSE

\* if (!authResult.organizationId): the handler answers 401
Unauthorized(authResult) == ~IsSome(authResult.organizationId)

\* mutant: the queries of the products and discounts routes do not filter by
\* organization
InOrganization_Any(row, organizationId) == TRUE

\* eq(<table>.organizationId, organizationId) in the where clause of a query of
\* the products and discounts routes; a null on either side matches nothing
InOrganization(row, organizationId) ==
  IsSome(organizationId) /\ row.organizationId = organizationId

\* the guard of the transaction endpoints: the bearer token's active organization
TransactionAuth(headers, queryFails) ==
  GetOrganizationIdFromHeaders(headers, queryFails)

\* mutant: the transaction endpoints take rows of any organization
TransactionScope_Any(row, organizationId) == TRUE

\* the organization filter of the transaction endpoints: a product, discount or
\* transaction is taken only when it belongs to the caller's organization
TransactionScope(row, organizationId) ==
  IsSome(organizationId) /\ row.organizationId = organizationId

----------------------------------------------------------------------------
(* Pricing: the per-item loop of POST /transactions *)

\* parseFloat(product.price): cents -> micros
ParsePrice(cents) == cents * Cent

\* parseFloat of a numeric(10,0) column (cogs, bundle_price): units -> micros
ParseWhole(units) == units * Unit

\* Math.floor(a / b) and a % b of JavaScript (remainder takes the dividend's sign)
JsFloorDiv(a, b) == a \div b
JsRem(a, b) == IF a >= 0 THEN a % b ELSE -((-a) % b)

\* itemTotal with bundle pricing: bundles * bundleQuantity * bundlePrice
\* + remaining * individualPrice when the quantity reaches the bundle quantity
BundleLineTotal(individualPrice, bundleQuantity, bundlePrice, quantity) ==
  IF IsSome(bundleQuantity) /\ IsSome(bundlePrice) /\ quantity >= Val(bundleQuantity)
  THEN JsFloorDiv(quantity, Val(bundleQuantity)) * Val(bundleQuantity) * Val(bundlePrice)
       + JsRem(quantity, Val(bundleQuantity)) * individualPrice
  ELSE individualPrice * quantity

\* mutant: the discount's product is not compared with the item's product
ItemDiscountApplies_AnyProduct(discount, productId) ==
  /\ IsSome(discount)
  /\ Val(discount).type = "individual_item"
  /\ IsSome(Val(discount).productId)

\* discount && type === "individual_item" && productId !== null && productId === product.id
ItemDiscountApplies(discount, productId) ==
  /\ IsSome(discount)
  /\ Val(discount).type = "individual_item"
  /\ IsSome(Val(discount).productId)
  /\ Val(Val(discount).productId) = productId

\* amount * (parseFloat(discount.percentage) / 100), that is
\* amount * percentage / PctDenominator with the percentage in hundredths; the
\* product is taken on the cents and on the part below a cent apart, to stay
\* within the model checker's integers (every amount discounted here is a whole
\* number of cents, so the quotient is exact)
DiscountAmount(amount, discount) ==
  (amount \div PctDenominator) * Val(discount).percentage
  + ((amount % PctDenominator) * Val(discount).percentage) \div PctDenominator

\* the line total of one item: bundle pricing, then the individual_item discount
ItemTotal(product, productId, quantity, discount) ==
  LET bundlePrice == IF IsSome(product.bundlePrice)
                     THEN Some(ParseWhole(Val(product.bundlePrice))) ELSE None
      itemTotal == BundleLineTotal(ParsePrice(product.price), product.bundleQuantity,
                                   bundlePrice, quantity)
  IN  IF ItemDiscountApplies(discount, productId)
      THEN itemTotal - DiscountAmount(itemTotal, discount)
      ELSE itemTotal

\* mutant: the for_all_item discount is applied whatever the discount's type
OrderDiscountApplies_AnyType(discount) == IsSome(discount)

\* discount && discount.type === "for_all_item"
OrderDiscountApplies(discount) ==
  IsSome(discount) /\ Val(discount).type = "for_all_item"

\* mutant: the for_all_item discount is taken off twice
ApplyOrderDiscount_Twice(totalAmount, discount) ==
  IF OrderDiscountApplies(discount)
  THEN LET once == totalAmount - DiscountAmount(totalAmount, discount)
       IN  once - DiscountAmount(once, discount)
  ELSE totalAmount

\* totalAmount after the loop, with the for_all_item discount applied once
ApplyOrderDiscount(totalAmount, discount) ==
  IF OrderDiscountApplies(discount)
  THEN totalAmount - DiscountAmount(totalAmount, discount)
  ELSE totalAmount

\* the items whose product's loaded stock is below the requested quantity
ShortItems(items, productDict) ==
  { i \in 1..Len(items) : productDict[items[i].product_id].stock < items[i].quantity }

\* mutant: the last short item is reported
FirstShort_Last(short) == CHOOSE i \in short : \A j \in short : j <= i

\* the loop returns at the first item, in the order of the request, whose
\* product has less stock than the item asks for
FirstShort(short) == CHOOSE i \in short : \A j \in short : i <= j

\* itemsToCreate: product id, quantity and the line total as a string
ItemsToCreate(items, productDict, discount) ==
  [ i \in 1..Len(items) |->
      [productId |-> items[i].product_id,
       quantity |-> items[i].quantity,
       price |-> ItemTotal(productDict[items[i].product_id], items[i].product_id,
                           items[i].quantity, discount)] ]

\* totalAmount: the sum of the line totals, then the for_all_item discount
TotalAmount(itemsToCreate, discount) ==
  ApplyOrderDiscount(SumSeq([i \in 1..Len(itemsToCreate) |-> itemsToCreate[i].price]),
                     discount)

\* mutant: the cost of one unit per item, whatever its quantity
TotalCOGS_PerLine(items, productDict) ==
  SumSeq([i \in 1..Len(items) |-> ParseWhole(productDict[items[i].product_id].cogs)])

\* totalCOGS: cogs * quantity summed over the items
TotalCOGS(items, productDict) ==
  SumSeq([i \in 1..Len(items) |->
            ParseWhole(productDict[items[i].product_id].cogs) * items[i].quantity])

\* Math.round: to the nearest integer, ties towards plus infinity
MathRound(x) == (x + Unit \div 2) \div Unit

\* profit = round(totalAmount - totalCOGS), in whole units
Profit(totalAmount, totalCOGS) == MathRound(totalAmount - totalCOGS)

----------------------------------------------------------------------------
(* Requests: one POST /transactions call each *)

NoWrites == [stock |-> <<>>, items |-> <<>>]

IdleReq ==
  [pc |-> "idle", body |-> [items |-> <<>>, discount_code |-> "", created_at |-> None],
   productDict |-> <<>>, discount |-> None,
   itemsToCreate |-> <<>>, totalAmount |-> 0, profit |-> 0,
   newTransaction |-> None, k |-> 0, writes |-> NoWrites,
   status |-> 0, error |-> "", nItems |-> 0, transactionId |-> 0,
   organizationId |-> None, queries |-> 0, result |-> [none |-> TRUE],
   detail |-> [none |-> TRUE]]

\* the handler has returned (or thrown): only the outcome remains, with the
\* number of items asked for, the id the transaction row got, if any, the
\* caller's organization and the number of statements the call has issued on
\* the tables of products, discounts, transactions and transaction items
Responded(q, status, error) ==
  [IdleReq EXCEPT !.pc = "done", !.status = status, !.error = error,
                  !.body = q.body,
                  !.nItems = q.nItems,
                  !.transactionId = q.transactionId,
                  !.organizationId = q.organizationId,
                  !.queries = q.queries]

\* the handler has returned an error whose message carries values
RespondedWith(q, status, error, detail) ==
  [Responded(q, status, error) EXCEPT !.detail = detail]

InTx(q) == q.pc \in {"update", "insert", "commit"}

\* "Validate stock and calculate total": the loop over body.items and the
\* for_all_item discount, run without a suspension point once the lookups are done
PriceOrder(q, productDict, discount) ==
  LET items == q.body.items
      short == ShortItems(items, productDict)
      itemsToCreate == ItemsToCreate(items, productDict, discount)
      totalAmount == TotalAmount(itemsToCreate, discount)
  IN  IF short # {}
      THEN LET item == items[FirstShort(short)]
                product == productDict[item.product_id]
           IN  RespondedWith(q, 400, "InsufficientStock",
                             [name |-> product.name, available |-> product.stock,
                              requested |-> item.quantity])
      ELSE [q EXCEPT !.pc = "begin", !.productDict = productDict,
                     !.discount = discount, !.itemsToCreate = itemsToCreate,
                     !.totalAmount = totalAmount,
                     !.profit = Profit(totalAmount, TotalCOGS(items, productDict))]

\* mutant: the check of the item list is missing
IsEmptyOrder_Never(productIds) == FALSE

\* productIds.length === 0
IsEmptyOrder(productIds) == Len(productIds) = 0

\* productIds.filter((id) => !productDict.has(id)): the ids not loaded, in the
\* order of the request
MissingIds(productIds, productDict) ==
  SelectSeq(productIds, LAMBDA id : id \notin DOMAIN productDict)

\* mutant: the stock of the first item's product is taken before the order is
\* validated (deduct while checking, item by item)
Handle_DeductsWhileChecking(r, headers, queryFails, body) ==
  /\ req[r].pc = "idle"
  /\ UNCHANGED sharedVars
  /\ LET authResult == TransactionAuth(headers, queryFails)
         organizationId == authResult.organizationId
         q == [req[r] EXCEPT !.body = body, !.nItems = Len(body.items),
                             !.organizationId = organizationId]
         loaded == [q EXCEPT !.queries = @ + 1]
         productIds == [i \in 1..Len(body.items) |-> body.items[i].product_id]
         requested == { productIds[i] : i \in 1..Len(productIds) }
         found == { p \in requested \cap DOMAIN products :
                      TransactionScope(products[p], organizationId) }
         productDict == [p \in found |-> products[p]]
         missingIds == requested \ DOMAIN productDict
     IN  /\ req' = [req EXCEPT ![r] =
               IF Unauthorized(authResult) THEN Responded(q, 401, "Unauthorized")
               ELSE IF IsEmptyOrder(productIds) THEN Responded(q, 400, "EmptyOrder")
               ELSE IF missingIds # {}
                THEN RespondedWith(loaded, 404, "ProductsNotFound",
                                   [missingIds |-> MissingIds(productIds, productDict)])
               ELSE IF body.discount_code # ""
                    THEN [loaded EXCEPT !.pc = "discount", !.productDict = productDict]
                    ELSE PriceOrder(loaded, productDict, None)]
         /\ products' =
               IF ~Unauthorized(authResult) /\ ~IsEmptyOrder(productIds)
                  /\ productIds[1] \in found
               THEN [products EXCEPT ![productIds[1]].stock = @ - body.items[1].quantity]
               ELSE products
  /\ UNCHANGED <<discounts, transactions, transactionItems,
                 transactionIdSeq, transactionItemIdSeq>>
  /\ UNCHANGED apiVars

\* the handler up to its first suspension points: the authorization guard
\* (the session table is not written by this service's core, so its lookup is
\* taken in the same step), the empty-order check, the batch load of the
\* products and the check that all of them exist
Handle(r, headers, queryFails, body) ==
  /\ req[r].pc = "idle"
  /\ UNCHANGED sharedVars
  /\ LET authResult == TransactionAuth(headers, queryFails)
         organizationId == authResult.organizationId
         q == [req[r] EXCEPT !.body = body, !.nItems = Len(body.items),
                             !.organizationId = organizationId]
         loaded == [q EXCEPT !.queries = @ + 1]
         productIds == [i \in 1..Len(body.items) |-> body.items[i].product_id]
         requested == { productIds[i] : i \in 1..Len(productIds) }
         found == { p \in requested \cap DOMAIN products :
                      TransactionScope(products[p], organizationId) }
         productDict == [p \in found |-> products[p]]
         missingIds == requested \ DOMAIN productDict
     IN  req' = [req EXCEPT ![r] =
           IF Unauthorized(authResult) THEN Responded(q, 401, "Unauthorized")
           ELSE IF IsEmptyOrder(productIds) THEN Responded(q, 400, "EmptyOrder")
           ELSE IF missingIds # {}
                THEN RespondedWith(loaded, 404, "ProductsNotFound",
                                   [missingIds |-> MissingIds(productIds, productDict)])
           ELSE IF body.discount_code # ""
                THEN [loaded EXCEPT !.pc = "discount", !.productDict = productDict]
                ELSE PriceOrder(loaded, productDict, None)]
  /\ UNCHANGED <<products, discounts, transactions, transactionItems,
                 transactionIdSeq, transactionItemIdSeq>>
  /\ UNCHANGED apiVars

\* POST /transactions arrives, among concurrent requests
Receive(r) ==
  /\ req[r].pc = "idle"
  /\ \E headers \in ConcurrentHeaders, body \in ConcurrentBodies :
       Handle(r, headers, FALSE, body)

\* POST /transactions arrives, as the only request
ReceiveOrder ==
  /\ req[1].pc = "idle"
  /\ \E headers \in OrderHeaders, queryFails \in BOOLEAN, body \in Bodies :
       Handle(1, headers, queryFails, body)

\* the discount lookup by code (limit 1), then the pricing loop
LoadDiscount(r) ==
  /\ req[r].pc = "discount"
  /\ UNCHANGED sharedVars
  /\ LET q == [req[r] EXCEPT !.queries = @ + 1]
         found == { d \in discounts : /\ d.code = q.body.discount_code
                                      /\ TransactionScope(d, q.organizationId) }
     IN  IF found = {}
         THEN req' = [req EXCEPT ![r] =
                RespondedWith(q, 404, "DiscountNotFound",
                              [code |-> q.body.discount_code])]
         ELSE \E discountData \in found :
                req' = [req EXCEPT ![r] = PriceOrder(q, q.productDict, Some(discountData))]
  /\ UNCHANGED <<products, discounts, transactions, transactionItems,
                 transactionIdSeq, transactionItemIdSeq>>
  /\ UNCHANGED apiVars

----------------------------------------------------------------------------
(* db.transaction: BEGIN, the statements on tx, COMMIT or ROLLBACK *)

\* a product row updated by another request's open transaction is locked
LockedByOther(r, p) ==
  \E o \in Requests \ {r} : InTx(req[o]) /\ p \in DOMAIN req[o].writes.stock

\* mutant: the update does not see the transaction's own earlier update
StockSeenBy_Committed(q, p) == products[p].stock

\* the product's stock as the request's transaction sees it: its own update,
\* else the committed row
StockSeenBy(q, p) ==
  IF p \in DOMAIN q.writes.stock THEN q.writes.stock[p] ELSE products[p].stock

\* mutant: the stock written is the stock loaded before the transaction minus
\* the quantity (read, then write the absolute value)
StockAfterUpdate_FromLoaded(current, loaded, quantity) == loaded - quantity

\* set stock = products.stock - quantity, evaluated by the database on the row
StockAfterUpdate(current, loaded, quantity) == current - quantity

\* the organization written to a new transaction row: the caller's
TransactionOwner(organizationId) == organizationId

\* BEGIN and the insert of the transaction row with .returning(); the loop
\* over itemsToCreate follows
TxInsertTransaction(r) ==
  /\ req[r].pc = "begin"
  /\ UNCHANGED sharedVars
  /\ LET q == req[r]
         id == transactionIdSeq + 1
         row == [id |-> id,
                 totalAmount |-> ToNumeric2(q.totalAmount),
                 discount |-> IF q.body.discount_code # ""
                              THEN Some(q.body.discount_code) ELSE None,
                 createdAt |-> IF IsSome(q.body.created_at)
                               THEN Val(q.body.created_at) ELSE Now,
                 profit |-> ToNumeric0(q.profit * Unit),
                 organizationId |-> TransactionOwner(q.organizationId)]
     IN  /\ transactionIdSeq' = id
         /\ req' = [req EXCEPT ![r] =
              [q EXCEPT !.pc = IF Len(q.itemsToCreate) = 0 THEN "commit" ELSE "update",
                        !.k = 1, !.newTransaction = Some(row),
                        !.transactionId = id, !.queries = @ + 1]]
  /\ UNCHANGED <<products, discounts, transactions, transactionItems,
                 transactionItemIdSeq>>
  /\ UNCHANGED apiVars

\* the update of the stock of the k-th item's product; it waits for the row
TxUpdateStock(r) ==
  /\ req[r].pc = "update"
  /\ UNCHANGED sharedVars
  /\ LET q == req[r]
         item == q.itemsToCreate[q.k]
         p == item.productId
     IN  /\ ~LockedByOther(r, p)
         /\ req' = [req EXCEPT ![r] =
              [q EXCEPT !.pc = "insert", !.queries = @ + 1,
                        !.writes.stock =
                           IF p \in DOMAIN products
                           THEN (p :> StockAfterUpdate(StockSeenBy(q, p),
                                                       q.productDict[p].stock,
                                                       item.quantity)) @@ @
                           ELSE @]]
  /\ UNCHANGED <<products, discounts, transactions, transactionItems,
                 transactionIdSeq, transactionItemIdSeq>>
  /\ UNCHANGED apiVars

\* the insert of the k-th transaction item, with the line total as its price
TxInsertItem(r) ==
  /\ req[r].pc = "insert"
  /\ UNCHANGED sharedVars
  /\ LET q == req[r]
         item == q.itemsToCreate[q.k]
         id == transactionItemIdSeq + 1
         row == [id |-> id, transactionId |-> Val(q.newTransaction).id,
                 productId |-> item.productId, quantity |-> item.quantity,
                 price |-> ToNumeric2(item.price)]
     IN  /\ transactionItemIdSeq' = id
         /\ req' = [req EXCEPT ![r] =
              [q EXCEPT !.pc = IF q.k = Len(q.itemsToCreate) THEN "commit" ELSE "update",
                        !.k = q.k + 1, !.queries = @ + 1,
                        !.writes.items = Append(@, row)]]
  /\ UNCHANGED <<products, discounts, transactions, transactionItems,
                 transactionIdSeq>>
  /\ UNCHANGED apiVars

\* an item of the creation response: the row as the transaction wrote it, its
\* price parsed, and the name of its product from the join
CreatedItemView(it) ==
  [id |-> it.id, quantity |-> it.quantity, price |-> ParsePrice(it.price),
   product_id |-> it.productId, transaction_id |-> it.transactionId,
   product_name |-> products[it.productId].name]

\* the creation response: the new transaction row and createdItems, the select
\* of its items inner-joined with their products, run inside the transaction
CreatedView(q) ==
  LET transaction == Val(q.newTransaction)
      createdItems == { q.writes.items[i] : i \in 1..Len(q.writes.items) }
  IN  [id |-> transaction.id,
       total_amount |-> ParsePrice(transaction.totalAmount),
       created_at |-> transaction.createdAt,
       discount |-> transaction.discount,
       items |-> { CreatedItemView(it) :
                   it \in { x \in createdItems : x.productId \in DOMAIN products } }]

\* the select of the created items, then COMMIT: the writes become visible
\* together, and the handler answers 201
TxCommit(r) ==
  /\ req[r].pc = "commit"
  /\ UNCHANGED sharedVars
  /\ LET q == [req[r] EXCEPT !.queries = @ + 1]
     IN  /\ products' = [p \in DOMAIN products |->
                           IF p \in DOMAIN q.writes.stock
                           THEN [products[p] EXCEPT !.stock = q.writes.stock[p]]
                           ELSE products[p]]
         /\ transactions' = transactions \cup {Val(q.newTransaction)}
         /\ transactionItems' =
              transactionItems \cup { q.writes.items[i] : i \in 1..Len(q.writes.items) }
         /\ req' = [req EXCEPT ![r] =
              [Responded(q, 201, "") EXCEPT !.result = CreatedView(q)]]
  /\ UNCHANGED <<discounts, transactionIdSeq, transactionItemIdSeq>>
  /\ UNCHANGED apiVars

\* mutant: no ROLLBACK, the statements already run stay applied (as they would
\* had they been issued on db rather than on tx)
TxFail_KeepsWrites(r) ==
  /\ req[r].pc \in {"begin", "update", "insert", "commit"}
  /\ UNCHANGED sharedVars
  /\ LET q == req[r]
     IN  /\ products' = [p \in DOMAIN products |->
                           IF p \in DOMAIN q.writes.stock
                           THEN [products[p] EXCEPT !.stock = q.writes.stock[p]]
                           ELSE products[p]]
         /\ transactions' = transactions \cup
              (IF IsSome(q.newTransaction) THEN {Val(q.newTransaction)} ELSE {})
         /\ transactionItems' =
              transactionItems \cup { q.writes.items[i] : i \in 1..Len(q.writes.items) }
         /\ req' = [req EXCEPT ![r] = Responded(q, 500, "Internal")]
  /\ UNCHANGED <<discounts, transactionIdSeq, transactionItemIdSeq>>
  /\ UNCHANGED apiVars

\* a statement of the transaction fails (connection, constraint, deadlock
\* victim): the callback throws, drizzle rolls the transaction back and the
\* handler ends with an internal error
TxFail(r) ==
  /\ req[r].pc \in {"begin", "update", "insert", "commit"}
  /\ UNCHANGED sharedVars
  /\ req' = [req EXCEPT ![r] = Responded(req[r], 500, "Internal")]
  /\ UNCHANGED <<products, discounts, transactions, transactionItems,
                 transactionIdSeq, transactionItemIdSeq>>
  /\ UNCHANGED apiVars

----------------------------------------------------------------------------
(* The calls of the other endpoints *)

\* no body, no held row, no response body
Nothing == [none |-> TRUE]

\* a call: the endpoint (op), the caller's organization, the path parameter
\* (id), the body, the row the handler holds between two statements (local),
\* the response (status, result) and the number of statements issued on the
\* tables of products, discounts, transactions and transaction items
IdleCall ==
  [pc |-> "idle", op |-> "none", organizationId |-> None, id |-> 0,
   body |-> Nothing, local |-> Nothing, status |-> 0, result |-> Nothing,
   queries |-> 0]

\* a handler is entered when its caller has no other call in flight
Arrives(c) == call[c].pc \in {"idle", "done"}

\* the handler returns
Answer(q, status, result) ==
  [q EXCEPT !.pc = "done", !.local = Nothing, !.status = status, !.result = result]

\* the handler throws: the framework answers 500
Throws(q) == Answer(q, 500, Nothing)

----------------------------------------------------------------------------
(* The products routes: src/routes/products.ts *)

\* the product ids a call names: a product of each organization at the start,
\* the last product the model can create, and an id no product gets
ProductIdsAsked == {1, 3, MaxProducts, MaxProducts + 1}

\* bundle_quantity and bundle_price of a body, each absent or a number (the
\* price in cents): absent, one of the two, a tier, and values out of range
BundlePairs ==
  { <<None, None>>, <<Some(3), None>>, <<None, Some(240)>>, <<Some(3), Some(240)>>,
    <<Some(0), Some(240)>>, <<Some(3), Some(-100)>> }

\* ProductCreate: name, price (in cents), cogs (in cents), stock (optional),
\* bundle_quantity and bundle_price (optional)
ProductCreateBodies ==
  { [name |-> "baru", price |-> 100, cogs |-> 50, stock |-> None,
     bundle_quantity |-> b[1], bundle_price |-> b[2]] : b \in BundlePairs }

\* ProductUpdate: every field optional; a body of the plain fields, and
\* bodies of the bundle fields
ProductUpdateBodies ==
  { [name |-> None, price |-> None, cogs |-> None, stock |-> None,
     bundle_quantity |-> b[1], bundle_price |-> b[2]] :
      b \in BundlePairs \ {<<None, None>>, <<Some(3), Some(-100)>>} }
  \cup { [name |-> Some("lama"), price |-> Some(120), cogs |-> Some(150), stock |-> Some(1),
          bundle_quantity |-> None, bundle_price |-> None] }

\* the queries of GET /products: search, offset and limit (defaults 0 and 100)
ProductQueries ==
  { <<None, 0, 100>>, <<Some("kopi"), 0, 100>>, <<None, 1, 1>> }

\* the schema of the body, checked by the framework before the handler runs:
\* bundle_quantity: t.Number({ minimum: 1 }), bundle_price: t.Number({ minimum: 0 })
ValidProductBody(body) ==
  /\ IsSome(body.bundle_quantity) => Val(body.bundle_quantity) >= 1
  /\ IsSome(body.bundle_price) => Val(body.bundle_price) >= 0

\* mutant: the check that the two bundle fields come together is missing
BundleFieldsUnpaired_Never(body) == FALSE

\* exactly one of bundle_quantity and bundle_price is given
BundleFieldsUnpaired(body) ==
  \/ IsSome(body.bundle_quantity) /\ ~IsSome(body.bundle_price)
  \/ ~IsSome(body.bundle_quantity) /\ IsSome(body.bundle_price)

\* the three checks of the bundle fields: the error, or none
BundleError(body) ==
  IF BundleFieldsUnpaired(body) THEN Some("BundleFieldsTogether")
  ELSE IF IsSome(body.bundle_quantity) /\ Val(body.bundle_quantity) <= 0
       THEN Some("BundleQuantityPositive")
  ELSE IF IsSome(body.bundle_price) /\ Val(body.bundle_price) < 0
       THEN Some("BundlePriceNotNegative")
  ELSE None

\* Math.round(cents / 100).toString(), stored in a numeric(10,0) column
RoundToUnits(cents) == ToNumeric0(MathRound(cents * Cent) * Unit)

\* the response body of the products routes
ProductView(id, row) ==
  [id |-> id, name |-> row.name, price |-> row.price, cogs |-> row.cogs,
   stock |-> row.stock, bundle_quantity |-> row.bundleQuantity,
   bundle_price |-> row.bundlePrice, organization_id |-> row.organizationId]

\* the rows of the products table that belong to the organization
ProductsOf(organizationId) ==
  { p \in DOMAIN products : InOrganization(products[p], organizationId) }

\* the other variables of a step on the products table
ProductsFrame ==
  UNCHANGED <<discounts, transactions, transactionItems, transactionIdSeq,
              transactionItemIdSeq, req, discountIdSeq>>

\* POST /products: the guard, the checks of the bundle fields and the insert
CreateProduct(c, headers, queryFails, body) ==
  /\ Arrives(c)
  /\ UNCHANGED sharedVars
  /\ productIdSeq < MaxProducts
  /\ LET authResult == GetOrganizationIdFromHeaders(headers, queryFails)
         q == [IdleCall EXCEPT !.op = "createProduct", !.body = body,
                               !.organizationId = authResult.organizationId]
         id == productIdSeq + 1
         row == [name |-> body.name, price |-> body.price,
                 cogs |-> RoundToUnits(body.cogs),
                 stock |-> IF IsSome(body.stock) THEN Val(body.stock) ELSE 0,
                 bundleQuantity |-> body.bundle_quantity,
                 bundlePrice |-> IF IsSome(body.bundle_price)
                                 THEN Some(RoundToUnits(Val(body.bundle_price)))
                                 ELSE None,
                 organizationId |-> authResult.organizationId]
     IN  IF ~ValidProductBody(body)
         THEN /\ call' = [call EXCEPT ![c] = Answer(q, 422, Nothing)]
              /\ UNCHANGED <<products, productIdSeq>>
         ELSE IF Unauthorized(authResult)
         THEN /\ call' = [call EXCEPT ![c] = Answer(q, 401, Nothing)]
              /\ UNCHANGED <<products, productIdSeq>>
         ELSE IF IsSome(BundleError(body))
         THEN /\ call' = [call EXCEPT ![c] = Answer(q, 400, [error |-> Val(BundleError(body))])]
              /\ UNCHANGED <<products, productIdSeq>>
         ELSE /\ products' = (id :> row) @@ products
              /\ productIdSeq' = id
              /\ call' = [call EXCEPT ![c] =
                   Answer([q EXCEPT !.id = id, !.queries = 1], 201, ProductView(id, row))]
  /\ ProductsFrame

\* the pages a select with limit and offset and no order may return: any
\* rows of the matching ones, as many as the page holds
Pages(matching, offset, limit) ==
  LET left == IF Cardinality(matching) > offset THEN Cardinality(matching) - offset ELSE 0
      size == IF left < limit THEN left ELSE limit
  IN  { page \in SUBSET matching : Cardinality(page) = size }

\* GET /products: the products of the caller's organization, with the optional
\* search (on the name; the description is not carried by the model), a page
ListProducts(c, headers, queryFails, search, offset, limit) ==
  /\ Arrives(c)
  /\ UNCHANGED sharedVars
  /\ LET authResult == GetOrganizationIdFromHeaders(headers, queryFails)
         q == [IdleCall EXCEPT !.op = "listProducts",
                               !.body = [search |-> search, offset |-> offset, limit |-> limit],
                               !.organizationId = authResult.organizationId]
         matching == { p \in ProductsOf(authResult.organizationId) :
                         IsSome(search) => products[p].name = Val(search) }
     IN  IF Unauthorized(authResult)
         THEN call' = [call EXCEPT ![c] = Answer(q, 401, Nothing)]
         ELSE \E page \in Pages(matching, offset, limit) :
                call' = [call EXCEPT ![c] =
                  Answer([q EXCEPT !.queries = 1], 200,
                         [rows |-> { ProductView(p, products[p]) : p \in page }])]
  /\ UNCHANGED <<products, productIdSeq>>
  /\ ProductsFrame

\* GET /products/:id: the product of that id in the caller's organization
GetProduct(c, headers, queryFails, id) ==
  /\ Arrives(c)
  /\ UNCHANGED sharedVars
  /\ LET authResult == GetOrganizationIdFromHeaders(headers, queryFails)
         q == [IdleCall EXCEPT !.op = "getProduct", !.id = id,
                               !.organizationId = authResult.organizationId]
     IN  call' = [call EXCEPT ![c] =
           IF Unauthorized(authResult) THEN Answer(q, 401, Nothing)
           ELSE IF id \notin ProductsOf(authResult.organizationId)
                THEN Answer([q EXCEPT !.queries = 1], 404, Nothing)
                ELSE Answer([q EXCEPT !.queries = 1], 200, ProductView(id, products[id]))]
  /\ UNCHANGED <<products, productIdSeq>>
  /\ ProductsFrame

\* updateData: the columns the body gives, with their new values
ProductUpdateData(body) ==
  [name |-> body.name,
   price |-> body.price,
   cogs |-> IF IsSome(body.cogs) THEN Some(RoundToUnits(Val(body.cogs))) ELSE None,
   stock |-> body.stock,
   bundleQuantity |-> IF IsSome(body.bundle_quantity)
                      THEN Some(body.bundle_quantity) ELSE None,
   bundlePrice |-> IF IsSome(body.bundle_price)
                   THEN Some(Some(RoundToUnits(Val(body.bundle_price)))) ELSE None]

\* update ... set updateData: a column that updateData names takes its value
UpdatedProduct(row, updateData) ==
  [row EXCEPT
     !.name = IF IsSome(updateData.name) THEN Val(updateData.name) ELSE @,
     !.price = IF IsSome(updateData.price) THEN Val(updateData.price) ELSE @,
     !.cogs = IF IsSome(updateData.cogs) THEN Val(updateData.cogs) ELSE @,
     !.stock = IF IsSome(updateData.stock) THEN Val(updateData.stock) ELSE @,
     !.bundleQuantity = IF IsSome(updateData.bundleQuantity)
                        THEN Val(updateData.bundleQuantity) ELSE @,
     !.bundlePrice = IF IsSome(updateData.bundlePrice)
                     THEN Val(updateData.bundlePrice) ELSE @]

\* PATCH /products/:id, to its update: the guard, the select of the product
\* in the caller's organization, the checks of the bundle fields, updateData
PatchProduct(c, headers, queryFails, id, body) ==
  /\ Arrives(c)
  /\ UNCHANGED sharedVars
  /\ LET authResult == GetOrganizationIdFromHeaders(headers, queryFails)
         q == [IdleCall EXCEPT !.op = "patchProduct", !.id = id, !.body = body,
                               !.organizationId = authResult.organizationId]
         selected == [q EXCEPT !.queries = 1]
     IN  call' = [call EXCEPT ![c] =
           IF ~ValidProductBody(body) THEN Answer(q, 422, Nothing)
           ELSE IF Unauthorized(authResult) THEN Answer(q, 401, Nothing)
           ELSE IF id \notin ProductsOf(authResult.organizationId)
                THEN Answer(selected, 404, Nothing)
           ELSE IF IsSome(BundleError(body))
                THEN Answer(selected, 400, [error |-> Val(BundleError(body))])
           ELSE [selected EXCEPT !.pc = "update", !.local = ProductUpdateData(body)]]
  /\ UNCHANGED <<products, productIdSeq>>
  /\ ProductsFrame

\* the update of PATCH /products/:id with .returning(); when the row is gone
\* (deleted since the select) nothing is returned and reading updated.id throws
PatchProductUpdate(c) ==
  /\ call[c].op = "patchProduct"
  /\ UNCHANGED sharedVars
  /\ call[c].pc = "update"
  /\ LET q == [call[c] EXCEPT !.queries = @ + 1]
     IN  IF q.id \in ProductsOf(q.organizationId)
         THEN LET updated == UpdatedProduct(products[q.id], q.local)
              IN  /\ products' = [products EXCEPT ![q.id] = updated]
                  /\ call' = [call EXCEPT ![c] = Answer(q, 200, ProductView(q.id, updated))]
         ELSE /\ call' = [call EXCEPT ![c] = Throws(q)]
              /\ UNCHANGED products
  /\ UNCHANGED productIdSeq
  /\ ProductsFrame

\* DELETE /products/:id, to its delete: the guard and the select of the product
DeleteProduct(c, headers, queryFails, id) ==
  /\ Arrives(c)
  /\ UNCHANGED sharedVars
  /\ LET authResult == GetOrganizationIdFromHeaders(headers, queryFails)
         q == [IdleCall EXCEPT !.op = "deleteProduct", !.id = id,
                               !.organizationId = authResult.organizationId]
     IN  call' = [call EXCEPT ![c] =
           IF Unauthorized(authResult) THEN Answer(q, 401, Nothing)
           ELSE IF id \notin ProductsOf(authResult.organizationId)
                THEN Answer([q EXCEPT !.queries = 1], 404, Nothing)
           ELSE [q EXCEPT !.pc = "delete", !.queries = 1]]
  /\ UNCHANGED <<products, productIdSeq>>
  /\ ProductsFrame

\* the rows that reference the product: discount.product_id and
\* transactionitem.product_id are foreign keys
ProductReferenced(id) ==
  \/ \E d \in discounts : d.productId = Some(id)
  \/ \E it \in transactionItems : it.productId = id

\* mutant: the foreign key of transactionitem.product_id cascades, the items
\* of a deleted product go with it
DeleteProductDelete_Cascade(c) ==
  /\ call[c].op = "deleteProduct"
  /\ UNCHANGED sharedVars
  /\ call[c].pc = "delete"
  /\ LET q == [call[c] EXCEPT !.queries = @ + 1]
         gone == ProductsOf(q.organizationId) \cap {q.id}
     IN  /\ products' = [p \in DOMAIN products \ gone |-> products[p]]
         /\ transactionItems' = { it \in transactionItems : it.productId \notin gone }
         /\ call' = [call EXCEPT ![c] = Answer(q, 204, Nothing)]
  /\ UNCHANGED <<discounts, transactions, transactionIdSeq, transactionItemIdSeq,
                 req, productIdSeq, discountIdSeq>>

\* the delete of DELETE /products/:id; it throws on a referenced product
DeleteProductDelete(c) ==
  /\ call[c].op = "deleteProduct"
  /\ UNCHANGED sharedVars
  /\ call[c].pc = "delete"
  /\ LET q == [call[c] EXCEPT !.queries = @ + 1]
     IN  IF q.id \in ProductsOf(q.organizationId) /\ ProductReferenced(q.id)
         THEN /\ call' = [call EXCEPT ![c] = Throws(q)]
              /\ UNCHANGED products
         ELSE /\ products' = [p \in DOMAIN products \ (ProductsOf(q.organizationId) \cap {q.id})
                                 |-> products[p]]
              /\ call' = [call EXCEPT ![c] = Answer(q, 204, Nothing)]
  /\ UNCHANGED productIdSeq
  /\ ProductsFrame

\* the headers of the calls of the products and discounts routes
CallHeaders == { None, Some(<<"Bearer", "tokX">>), Some(<<"Bearer", "tokY">>) }

\* a call of the products routes arrives, or goes on
ProductsCall(c) ==
  \/ \E headers \in CallHeaders, body \in ProductCreateBodies :
       CreateProduct(c, headers, FALSE, body)
  \/ \E headers \in CallHeaders, query \in ProductQueries :
       ListProducts(c, headers, FALSE, query[1], query[2], query[3])
  \/ \E headers \in CallHeaders, id \in ProductIdsAsked :
       GetProduct(c, headers, FALSE, id)
  \/ \E headers \in CallHeaders, id \in ProductIdsAsked, body \in ProductUpdateBodies :
       PatchProduct(c, headers, FALSE, id, body)
  \/ PatchProductUpdate(c)
  \/ \E headers \in CallHeaders, id \in ProductIdsAsked :
       DeleteProduct(c, headers, FALSE, id)
  \/ DeleteProductDelete(c)

----------------------------------------------------------------------------
(* The discounts routes: src/routes/discounts.ts *)

\* the other variables of a step of the discounts routes
DiscountsFrame ==
  UNCHANGED <<products, transactions, transactionItems, transactionIdSeq,
              transactionItemIdSeq, req, productIdSeq>>

\* the response body of the discounts routes
DiscountView(row) ==
  [id |-> row.id, code |-> row.code, type |-> row.type,
   percentage |-> row.percentage, product_id |-> row.productId,
   organization_id |-> row.organizationId]

\* !product_id: undefined, null and 0 are falsy
Falsy(product_id) == ~IsSome(product_id) \/ Val(product_id) = 0

\* the select of a product by id in the caller's organization (limit 1)
ProductFound(product_id, organizationId) ==
  /\ product_id \in DOMAIN products
  /\ InOrganization(products[product_id], organizationId)

\* the select of a discount by code in the caller's organization (limit 1)
CodeExists(code, organizationId) ==
  \E d \in discounts : d.code = code /\ InOrganization(d, organizationId)

\* mutant: the code column carries no unique constraint
UniqueViolation_Never(code, id) == FALSE

\* code: varchar(50).notNull().unique(): a row other than the one written
\* has the code, in whatever organization
UniqueViolation(code, id) ==
  \E d \in discounts : d.code = code /\ d.id # id

\* product_id references product.id: the product written does not exist
ForeignKeyViolation(productId) ==
  IsSome(productId) /\ Val(productId) \notin DOMAIN products

\* POST /discounts, to the check of the code: the guard, the checks of type
\* against product_id, and the select of the product when one is given
CreateDiscount(c, headers, queryFails, body) ==
  /\ Arrives(c)
  /\ UNCHANGED sharedVars
  /\ discountIdSeq < MaxDiscounts
  /\ LET authResult == GetOrganizationIdFromHeaders(headers, queryFails)
         organizationId == authResult.organizationId
         q == [IdleCall EXCEPT !.op = "createDiscount", !.organizationId = organizationId]
     IN  call' = [call EXCEPT ![c] =
           IF Unauthorized(authResult) THEN Answer(q, 401, Nothing)
           ELSE IF body.type = "individual_item" /\ Falsy(body.product_id)
                THEN Answer(q, 400, [error |-> "ProductRequired"])
           ELSE IF body.type = "for_all_item" /\ IsSome(body.product_id)
                THEN Answer(q, 400, [error |-> "ProductNotAllowed"])
           ELSE IF IsSome(body.product_id)
                   /\ ~ProductFound(Val(body.product_id), organizationId)
                THEN Answer([q EXCEPT !.queries = 1], 404, [error |-> "ProductNotFound"])
           ELSE [q EXCEPT !.pc = "code", !.local = body,
                          !.queries = IF IsSome(body.product_id) THEN 1 ELSE 0]]
  /\ UNCHANGED <<discounts, discountIdSeq>>
  /\ DiscountsFrame

\* the check that the code is not taken in the caller's organization
CreateDiscountCode(c) ==
  /\ call[c].op = "createDiscount"
  /\ UNCHANGED sharedVars
  /\ call[c].pc = "code"
  /\ LET q == [call[c] EXCEPT !.queries = @ + 1]
     IN  call' = [call EXCEPT ![c] =
           IF CodeExists(q.local.code, q.organizationId)
           THEN Answer(q, 400, [error |-> "CodeExists"])
           ELSE [q EXCEPT !.pc = "insert"]]
  /\ UNCHANGED <<discounts, discountIdSeq>>
  /\ DiscountsFrame

\* the insert of the discount with .returning(); the statement fails on a
\* constraint of the table, and the handler throws
CreateDiscountInsert(c) ==
  /\ call[c].op = "createDiscount"
  /\ UNCHANGED sharedVars
  /\ call[c].pc = "insert"
  /\ LET q == [call[c] EXCEPT !.queries = @ + 1]
         body == q.local
         id == discountIdSeq + 1
         row == [id |-> id, code |-> body.code, type |-> body.type,
                 percentage |-> body.percentage,
                 productId |-> IF Falsy(body.product_id) THEN None ELSE body.product_id,
                 organizationId |-> q.organizationId]
     IN  /\ discountIdSeq' = id
         /\ IF UniqueViolation(row.code, id) \/ ForeignKeyViolation(row.productId)
            THEN /\ call' = [call EXCEPT ![c] = Throws(q)]
                 /\ UNCHANGED discounts
            ELSE /\ discounts' = discounts \cup {row}
                 /\ call' = [call EXCEPT ![c] =
                      Answer([q EXCEPT !.id = id], 201, DiscountView(row))]
  /\ DiscountsFrame

\* the rows of the discounts table with the id, in the caller's organization
DiscountsFound(id, organizationId) ==
  { d \in discounts : d.id = id /\ InOrganization(d, organizationId) }

\* PATCH /discounts/:id, to its checks: the guard and the select of the
\* discount in the caller's organization
PatchDiscount(c, headers, queryFails, id, body) ==
  /\ Arrives(c)
  /\ UNCHANGED sharedVars
  /\ LET authResult == GetOrganizationIdFromHeaders(headers, queryFails)
         organizationId == authResult.organizationId
         q == [IdleCall EXCEPT !.op = "patchDiscount", !.id = id,
                               !.organizationId = organizationId]
         found == DiscountsFound(id, organizationId)
     IN  call' = [call EXCEPT ![c] =
           IF Unauthorized(authResult) THEN Answer(q, 401, Nothing)
           ELSE IF found = {}
                THEN Answer([q EXCEPT !.queries = 1], 404, [error |-> "DiscountNotFound"])
           ELSE [q EXCEPT !.pc = "product", !.queries = 1,
                          !.local = [body |-> body, existing |-> CHOOSE d \in found : TRUE]]]
  /\ UNCHANGED <<discounts, discountIdSeq>>
  /\ DiscountsFrame

\* finalType: the type of the body, else the stored one
FinalType(body, existing) ==
  IF IsSome(body.type) THEN Val(body.type) ELSE existing.type

\* finalProductId: the product_id of the body, else the stored one
FinalProductId(body, existing) ==
  IF IsSome(body.product_id) THEN body.product_id ELSE existing.productId

\* updateData: the columns the body gives, with their new values
DiscountUpdateData(body, existing) ==
  [code |-> body.code, type |-> body.type, percentage |-> body.percentage,
   productId |-> IF IsSome(body.product_id) THEN Some(body.product_id) ELSE None]

\* the checks of the final type against the final product: an individual_item
\* discount needs a product, of the caller's organization (a select); a
\* for_all_item discount takes no product_id in the body
PatchDiscountProduct(c) ==
  /\ call[c].op = "patchDiscount"
  /\ UNCHANGED sharedVars
  /\ call[c].pc = "product"
  /\ LET q == call[c]
         body == q.local.body
         existing == q.local.existing
         finalType == FinalType(body, existing)
         finalProductId == FinalProductId(body, existing)
         selected == [q EXCEPT !.queries = @ + 1]
     IN  call' = [call EXCEPT ![c] =
           IF finalType = "individual_item" /\ Falsy(finalProductId)
           THEN Answer(q, 400, [error |-> "ProductRequired"])
           ELSE IF finalType = "individual_item"
                   /\ ~ProductFound(Val(finalProductId), q.organizationId)
                THEN Answer(selected, 404, [error |-> "ProductNotFound"])
           ELSE IF finalType = "for_all_item" /\ IsSome(body.product_id)
                THEN Answer(q, 400, [error |-> "ProductNotAllowed"])
           ELSE [(IF finalType = "individual_item" THEN selected ELSE q)
                   EXCEPT !.pc = "code"]]
  /\ UNCHANGED <<discounts, discountIdSeq>>
  /\ DiscountsFrame

\* the check of a code that changes: not taken in the caller's organization
PatchDiscountCode(c) ==
  /\ call[c].op = "patchDiscount"
  /\ UNCHANGED sharedVars
  /\ call[c].pc = "code"
  /\ LET q == call[c]
         body == q.local.body
         existing == q.local.existing
         changes == IsSome(body.code) /\ Val(body.code) # existing.code
         selected == [q EXCEPT !.queries = @ + 1]
     IN  call' = [call EXCEPT ![c] =
           IF changes /\ CodeExists(Val(body.code), q.organizationId)
           THEN Answer(selected, 400, [error |-> "CodeExists"])
           ELSE [(IF changes THEN selected ELSE q) EXCEPT !.pc = "update"]]
  /\ UNCHANGED <<discounts, discountIdSeq>>
  /\ DiscountsFrame

\* update ... set updateData: a column that updateData names takes its value
UpdatedDiscount(row, updateData) ==
  [row EXCEPT
     !.code = IF IsSome(updateData.code) THEN Val(updateData.code) ELSE @,
     !.type = IF IsSome(updateData.type) THEN Val(updateData.type) ELSE @,
     !.percentage = IF IsSome(updateData.percentage) THEN Val(updateData.percentage) ELSE @,
     !.productId = IF IsSome(updateData.productId) THEN Val(updateData.productId) ELSE @]

\* the update of PATCH /discounts/:id with .returning(); when the row is gone
\* nothing is returned and reading updated.id throws, and the statement fails
\* on a constraint of the table
PatchDiscountUpdate(c) ==
  /\ call[c].op = "patchDiscount"
  /\ UNCHANGED sharedVars
  /\ call[c].pc = "update"
  /\ LET q == [call[c] EXCEPT !.queries = @ + 1]
         found == DiscountsFound(q.id, q.organizationId)
         updateData == DiscountUpdateData(q.local.body, q.local.existing)
     IN  IF found = {}
         THEN /\ call' = [call EXCEPT ![c] = Throws(q)]
              /\ UNCHANGED discounts
         ELSE LET row == CHOOSE d \in found : TRUE
                  updated == UpdatedDiscount(row, updateData)
              IN  IF UniqueViolation(updated.code, row.id)
                     \/ ForeignKeyViolation(updated.productId)
                  THEN /\ call' = [call EXCEPT ![c] = Throws(q)]
                       /\ UNCHANGED discounts
                  ELSE /\ discounts' = (discounts \ {row}) \cup {updated}
                       /\ call' = [call EXCEPT ![c] = Answer(q, 200, DiscountView(updated))]
  /\ UNCHANGED discountIdSeq
  /\ DiscountsFrame

\* DELETE /discounts/:id, to its delete: the guard and the select of the
\* discount in the caller's organization
DeleteDiscount(c, headers, queryFails, id) ==
  /\ Arrives(c)
  /\ UNCHANGED sharedVars
  /\ LET authResult == GetOrganizationIdFromHeaders(headers, queryFails)
         organizationId == authResult.organizationId
         q == [IdleCall EXCEPT !.op = "deleteDiscount", !.id = id,
                               !.organizationId = organizationId]
     IN  call' = [call EXCEPT ![c] =
           IF Unauthorized(authResult) THEN Answer(q, 401, Nothing)
           ELSE IF DiscountsFound(id, organizationId) = {}
                THEN Answer([q EXCEPT !.queries = 1], 404, [error |-> "DiscountNotFound"])
           ELSE [q EXCEPT !.pc = "delete", !.queries = 1]]
  /\ UNCHANGED <<discounts, discountIdSeq>>
  /\ DiscountsFrame

\* the delete of DELETE /discounts/:id: no row references a discount
DeleteDiscountDelete(c) ==
  /\ call[c].op = "deleteDiscount"
  /\ UNCHANGED sharedVars
  /\ call[c].pc = "delete"
  /\ LET q == [call[c] EXCEPT !.queries = @ + 1]
     IN  /\ discounts' = discounts \ DiscountsFound(q.id, q.organizationId)
         /\ call' = [call EXCEPT ![c] = Answer(q, 204, Nothing)]
  /\ UNCHANGED discountIdSeq
  /\ DiscountsFrame

\* DiscountCreate: code, type, percentage (in hundredths of a percent) and the
\* optional product_id
DiscountCreateBodies ==
  [code : {"HALF1", "BARU"}, type : {"individual_item", "for_all_item"},
   percentage : {1000}, product_id : {None, Some(0), Some(1), Some(3)}]

\* DiscountUpdate: every field optional; product_id: t.Optional(t.Number()),
\* so that the framework lets no null through
DiscountUpdateBodies ==
  [code : {None, Some("ALL25")},
   type : {None, Some("individual_item"), Some("for_all_item")},
   percentage : {None}, product_id : {None, Some(1), Some(3)}]

\* the discount ids a call names: the two stored at the start, the last the
\* model can create, and an id no discount gets
DiscountIdsAsked == {1, 2, MaxDiscounts, MaxDiscounts + 1}

\* a call of the discounts routes arrives, or goes on
DiscountsCall(c) ==
  \/ \E headers \in CallHeaders, body \in DiscountCreateBodies :
       CreateDiscount(c, headers, FALSE, body)
  \/ CreateDiscountCode(c)
  \/ CreateDiscountInsert(c)
  \/ \E headers \in CallHeaders, id \in DiscountIdsAsked, body \in DiscountUpdateBodies :
       PatchDiscount(c, headers, FALSE, id, body)
  \/ PatchDiscountProduct(c)
  \/ PatchDiscountCode(c)
  \/ PatchDiscountUpdate(c)

\* the bodies of the concurrent calls of the discounts routes: the creation
\* of a whole-order discount, and a change of code
RaceCreateBodies ==
  [code : {"HALF1", "BARU"}, type : {"for_all_item"}, percentage : {1000},
   product_id : {None}]

RaceUpdateBodies ==
  [code : {Some("BARU")}, type : {None}, percentage : {None}, product_id : {None}]

\* a call of the discounts routes arrives among concurrent ones, or goes on
DiscountsRaceCall(c) ==
  \/ \E headers \in CallHeaders \ {None}, body \in RaceCreateBodies :
       CreateDiscount(c, headers, FALSE, body)
  \/ CreateDiscountCode(c)
  \/ CreateDiscountInsert(c)
  \/ \E headers \in CallHeaders \ {None}, id \in {1, MaxDiscounts}, body \in RaceUpdateBodies :
       PatchDiscount(c, headers, FALSE, id, body)
  \/ PatchDiscountProduct(c)
  \/ PatchDiscountCode(c)
  \/ PatchDiscountUpdate(c)

----------------------------------------------------------------------------
(* GET /transactions/:id *)

\* the transaction ids a read asks for: those the model can store, and one more
TransactionIdsAsked == 1..(MaxRequests + 1)

\* the select of the transaction by id (limit 1), within the caller's
\* organization; 404 when there is no row
GetTransaction(c, headers, queryFails, id) ==
  /\ Arrives(c)
  /\ UNCHANGED sharedVars
  /\ LET authResult == TransactionAuth(headers, queryFails)
         q == [IdleCall EXCEPT !.op = "getTransaction", !.id = id,
                               !.organizationId = authResult.organizationId]
         rows == { t \in transactions :
                     t.id = id /\ TransactionScope(t, authResult.organizationId) }
     IN  call' = [call EXCEPT ![c] =
           IF Unauthorized(authResult) THEN Answer(q, 401, Nothing)
           ELSE IF rows = {} THEN Answer([q EXCEPT !.queries = 1], 404, Nothing)
           ELSE [q EXCEPT !.pc = "items", !.queries = 1,
                          !.local = CHOOSE t \in rows : TRUE]]
  /\ UNCHANGED <<products, discounts, transactions, transactionItems,
                 transactionIdSeq, transactionItemIdSeq, req,
                 productIdSeq, discountIdSeq>>

\* mutant: the item's price is the unit price of its product, not the stored
\* line total
ItemView_UnitPrice(it) ==
  [id |-> it.id, quantity |-> it.quantity,
   price |-> ParsePrice(products[it.productId].price),
   product_id |-> it.productId, transaction_id |-> it.transactionId,
   product_name |-> products[it.productId].name]

\* an item of a read: the stored row, its price parsed (parseFloat(item.price)),
\* and the name of its product from the join
ItemView(it) ==
  [id |-> it.id, quantity |-> it.quantity, price |-> ParsePrice(it.price),
   product_id |-> it.productId, transaction_id |-> it.transactionId,
   product_name |-> products[it.productId].name]

\* mutant: a destructive read, the items read are deleted
GetTransactionItems_Consumes(c) ==
  /\ call[c].op = "getTransaction"
  /\ UNCHANGED sharedVars
  /\ call[c].pc = "items"
  /\ LET q == call[c]
         transaction == q.local
         itemsData == { it \in transactionItems :
                          it.transactionId = q.id /\ it.productId \in DOMAIN products }
         view == [id |-> transaction.id,
                  total_amount |-> ParsePrice(transaction.totalAmount),
                  created_at |-> transaction.createdAt,
                  discount |-> transaction.discount,
                  items |-> { ItemView(it) : it \in itemsData }]
     IN  /\ call' = [call EXCEPT ![c] = Answer([q EXCEPT !.queries = @ + 1], 200, view)]
         /\ transactionItems' = transactionItems \ itemsData
  /\ UNCHANGED <<products, discounts, transactions,
                 transactionIdSeq, transactionItemIdSeq, req,
                 productIdSeq, discountIdSeq>>

\* the select of the transaction's items, inner-joined with their products,
\* and the response: amounts parsed from the numeric columns
GetTransactionItems(c) ==
  /\ call[c].op = "getTransaction"
  /\ UNCHANGED sharedVars
  /\ call[c].pc = "items"
  /\ LET q == call[c]
         transaction == q.local
         itemsData == { it \in transactionItems :
                          it.transactionId = q.id /\ it.productId \in DOMAIN products }
         view == [id |-> transaction.id,
                  total_amount |-> ParsePrice(transaction.totalAmount),
                  created_at |-> transaction.createdAt,
                  discount |-> transaction.discount,
                  items |-> { ItemView(it) : it \in itemsData }]
     IN  call' = [call EXCEPT ![c] = Answer([q EXCEPT !.queries = @ + 1], 200, view)]
  /\ UNCHANGED <<products, discounts, transactions, transactionItems,
                 transactionIdSeq, transactionItemIdSeq, req,
                 productIdSeq, discountIdSeq>>

----------------------------------------------------------------------------
(* GET /transactions *)

\* query.offset ?? 0 and query.limit ?? 100
DefaultOffset == 0
DefaultLimit == 100

\* the queries of GET /transactions: offset and limit, each optional
ListQueries == [offset : {None, Some(1)}, limit : {None, Some(1)}]

\* mutant: order by created_at ascending, oldest first
NewestFirst_Ascending(rows) ==
  { ordered \in [1..Cardinality(rows) -> rows] :
      /\ \A i, j \in 1..Cardinality(rows) : i # j => ordered[i] # ordered[j]
      /\ \A i, j \in 1..Cardinality(rows) :
           i < j => ordered[i].createdAt <= ordered[j].createdAt }

\* orderBy(desc(transactions.createdAt)): the rows in an order of descending
\* creation time; rows of the same time come in any order
NewestFirst(rows) ==
  { ordered \in [1..Cardinality(rows) -> rows] :
      /\ \A i, j \in 1..Cardinality(rows) : i # j => ordered[i] # ordered[j]
      /\ \A i, j \in 1..Cardinality(rows) :
           i < j => ordered[i].createdAt >= ordered[j].createdAt }

\* .limit(limit).offset(offset) on the ordered rows
Page(ordered, offset, limit) ==
  LET last == IF offset + limit < Len(ordered) THEN offset + limit ELSE Len(ordered)
  IN  [ i \in 1..(IF last > offset THEN last - offset ELSE 0) |-> ordered[offset + i] ]

\* the first select of GET /transactions: a page of the transactions of the
\* caller's organization, newest first; an empty page is answered at once
ListTransactions(c, headers, queryFails, query) ==
  /\ Arrives(c)
  /\ UNCHANGED sharedVars
  /\ LET authResult == TransactionAuth(headers, queryFails)
         offset == IF IsSome(query.offset) THEN Val(query.offset) ELSE DefaultOffset
         limit == IF IsSome(query.limit) THEN Val(query.limit) ELSE DefaultLimit
         q == [IdleCall EXCEPT !.op = "listTransactions",
                               !.body = [offset |-> offset, limit |-> limit],
                               !.organizationId = authResult.organizationId]
         rows == { t \in transactions : TransactionScope(t, authResult.organizationId) }
     IN  IF Unauthorized(authResult)
         THEN call' = [call EXCEPT ![c] = Answer(q, 401, Nothing)]
         ELSE \E ordered \in NewestFirst(rows) :
                LET transactionsList == Page(ordered, offset, limit)
                IN  call' = [call EXCEPT ![c] =
                      IF Len(transactionsList) = 0
                      THEN Answer([q EXCEPT !.queries = 1], 200, [list |-> <<>>])
                      ELSE [q EXCEPT !.pc = "items", !.queries = 1,
                                     !.local = [transactionsList |-> transactionsList,
                                                itemsData |-> {}]]]
  /\ UNCHANGED <<products, discounts, transactions, transactionItems,
                 transactionIdSeq, transactionItemIdSeq, req,
                 productIdSeq, discountIdSeq>>

\* a transaction of the list, with the items grouped under its id
ListedTransaction(txn, itemsWithProducts) ==
  [id |-> txn.id, total_amount |-> ParsePrice(txn.totalAmount),
   created_at |-> txn.createdAt, discount |-> txn.discount,
   items |-> { item \in itemsWithProducts : item.transaction_id = txn.id }]

\* the response: transactionsList.map, in the order of the page
ListedTransactions(transactionsList, itemsWithProducts) ==
  [ i \in 1..Len(transactionsList) |->
      ListedTransaction(transactionsList[i], itemsWithProducts) ]

\* the second select: the items whose transaction_id is one of the page's ids
\* (pool.query); with no item at all, the transactions are answered with
\* empty item lists
ListTransactionItems(c) ==
  /\ call[c].op = "listTransactions"
  /\ UNCHANGED sharedVars
  /\ call[c].pc = "items"
  /\ LET q == [call[c] EXCEPT !.queries = @ + 1]
         transactionsList == q.local.transactionsList
         transactionIds == { transactionsList[i].id : i \in 1..Len(transactionsList) }
         itemsData == { it \in transactionItems : it.transactionId \in transactionIds }
     IN  call' = [call EXCEPT ![c] =
           IF itemsData = {}
           THEN Answer(q, 200, [list |-> ListedTransactions(transactionsList, {})])
           ELSE [q EXCEPT !.pc = "products", !.local.itemsData = itemsData]]
  /\ UNCHANGED <<products, discounts, transactions, transactionItems,
                 transactionIdSeq, transactionItemIdSeq, req,
                 productIdSeq, discountIdSeq>>

\* an item with its product's name: product?.name || "", its price parsed
ListedItem(item) ==
  [id |-> item.id, quantity |-> item.quantity, price |-> ParsePrice(item.price),
   product_id |-> item.productId, transaction_id |-> item.transactionId,
   product_name |-> IF item.productId \in DOMAIN products
                    THEN products[item.productId].name ELSE ""]

\* the third select: the products of the items (inArray), and the response
ListTransactionProducts(c) ==
  /\ call[c].op = "listTransactions"
  /\ UNCHANGED sharedVars
  /\ call[c].pc = "products"
  /\ LET q == [call[c] EXCEPT !.queries = @ + 1]
         itemsWithProducts == { ListedItem(item) : item \in q.local.itemsData }
     IN  call' = [call EXCEPT ![c] =
           Answer(q, 200, [list |-> ListedTransactions(q.local.transactionsList,
                                                       itemsWithProducts)])]
  /\ UNCHANGED <<products, discounts, transactions, transactionItems,
                 transactionIdSeq, transactionItemIdSeq, req,
                 productIdSeq, discountIdSeq>>

\* a statement of GET /transactions fails: the handler's catch answers 500
ListTransactionsFail(c) ==
  /\ call[c].op = "listTransactions"
  /\ UNCHANGED sharedVars
  /\ call[c].pc \in {"items", "products"}
  /\ call' = [call EXCEPT ![c] = Answer(call[c], 500, [error |-> "Internal"])]
  /\ UNCHANGED <<products, discounts, transactions, transactionItems,
                 transactionIdSeq, transactionItemIdSeq, req,
                 productIdSeq, discountIdSeq>>

----------------------------------------------------------------------------
(* The specification: MaxRequests concurrent createTransaction calls *)

Init ==
  /\ products = Catalog
  /\ discounts = DiscountRows
  /\ transactions = {}
  /\ transactionItems = {}
  /\ transactionIdSeq = 0
  /\ transactionItemIdSeq = 0
  /\ req = [r \in Requests |-> IdleReq]
  /\ productIdSeq = Cardinality(DOMAIN Catalog)
  /\ discountIdSeq = Cardinality(DiscountRows)
  /\ call = [c \in Callers |-> IdleCall]
  /\ clients = <<>>
  /\ idle = <<>>
  /\ pendingQueue = <<>>
  /\ organization = {}
  /\ member = {}

Next ==
  \E r \in Requests :
    \/ Receive(r)
    \/ LoadDiscount(r)
    \/ TxInsertTransaction(r)
    \/ TxUpdateStock(r)
    \/ TxInsertItem(r)
    \/ TxCommit(r)
    \/ TxFail(r)

Spec == Init /\ [][Next]_vars

\* one createTransaction call alone, over every request body of the model
NextOrder ==
  \/ ReceiveOrder
  \/ LoadDiscount(1)
  \/ TxInsertTransaction(1)
  \/ TxUpdateStock(1)
  \/ TxInsertItem(1)
  \/ TxCommit(1)
  \/ TxFail(1)

SpecOrder == Init /\ [][NextOrder]_vars

\* the request bodies of the specification of the reads: two units of one
\* product, and an order of two products with a discount code
ReadBodies ==
  { [items |-> <<[product_id |-> p, quantity |-> 2]>>, discount_code |-> "",
     created_at |-> None] : p \in ProductIds }
  \cup { [items |-> <<[product_id |-> 1, quantity |-> 2], [product_id |-> 2, quantity |-> 1]>>,
          discount_code |-> "ALL25", created_at |-> None] }

\* POST /transactions arrives, before the reads or among them
ReceiveRead ==
  /\ req[1].pc = "idle"
  /\ \E headers \in OrderHeaders, body \in ReadBodies :
       Handle(1, headers, FALSE, body)

\* one createTransaction call and the calls of GET /transactions/:id
NextRead ==
  \/ ReceiveRead
  \/ LoadDiscount(1)
  \/ TxInsertTransaction(1)
  \/ TxUpdateStock(1)
  \/ TxInsertItem(1)
  \/ TxCommit(1)
  \/ TxFail(1)
  \/ \E c \in Callers :
       \/ \E headers \in OrderHeaders, id \in TransactionIdsAsked :
            GetTransaction(c, headers, FALSE, id)
       \/ GetTransactionItems(c)

SpecRead == Init /\ [][NextRead]_vars

\* the creation times a request gives: none (the current time), or an earlier one
CreationTimes == {None, Some(1)}

\* the request bodies of the specification of the list: one unit of a product
\* of either organization, with or without a creation time, and an order of
\* two products
ListBodies ==
  { [items |-> <<[product_id |-> p, quantity |-> 1]>>, discount_code |-> "",
     created_at |-> at] : p \in {1, 3}, at \in CreationTimes }
  \cup { [items |-> <<[product_id |-> 1, quantity |-> 1], [product_id |-> 2, quantity |-> 1]>>,
          discount_code |-> "", created_at |-> None] }

\* the callers of the specification of the list: a session of each organization
ListHeaders == { Some(<<"Bearer", "tokX">>), Some(<<"Bearer", "tokY">>) }

\* the caller orders products of its own organization
OrdersOwnProducts(headers, body) ==
  \A i \in 1..Len(body.items) :
    Catalog[body.items[i].product_id].organizationId
      = TransactionAuth(headers, FALSE).organizationId

\* POST /transactions arrives, among the lists: the creations come one after
\* the other, each while a list may be in flight
ReceiveList(r) ==
  /\ req[r].pc = "idle"
  /\ \A o \in Requests \ {r} : req[o].pc = (IF o < r THEN "done" ELSE "idle")
  /\ \E headers \in ListHeaders, body \in ListBodies :
       /\ OrdersOwnProducts(headers, body)
       /\ Handle(r, headers, FALSE, body)

\* createTransaction calls and, concurrent with them, the calls of GET
\* /transactions
NextList ==
  \/ \E r \in Requests :
       \/ ReceiveList(r)
       \/ TxInsertTransaction(r)
       \/ TxUpdateStock(r)
       \/ TxInsertItem(r)
       \/ TxCommit(r)
       \/ TxFail(r)
  \/ \E headers \in ListHeaders, query \in ListQueries :
       ListTransactions(1, headers, FALSE, query)
  \/ ListTransactionItems(1)
  \/ ListTransactionProducts(1)
  \/ ListTransactionsFail(1)

SpecList == Init /\ [][NextList]_vars

\* the calls of the products routes, one after the other
NextProducts == ProductsCall(1)

SpecProducts == Init /\ [][NextProducts]_vars

\* the calls that create and update discounts, one after the other
NextDiscounts == DiscountsCall(1)

SpecDiscounts == Init /\ [][NextDiscounts]_vars

\* concurrent calls that create discounts and change their codes
NextDiscountsRace == \E c \in Callers : DiscountsRaceCall(c)

SpecDiscountsRace == Init /\ [][NextDiscountsRace]_vars

\* getOrganizationIdFromHeaders is applied to the headers of a request, with a
\* session lookup that works or fails, and its result is kept
Authorize(c, headers, queryFails) ==
  /\ Arrives(c)
  /\ UNCHANGED sharedVars
  /\ LET authResult == GetOrganizationIdFromHeaders(headers, queryFails)
         q == [IdleCall EXCEPT !.op = "authorize",
                               !.body = [headers |-> headers, queryFails |-> queryFails],
                               !.organizationId = authResult.organizationId]
     IN  call' = [call EXCEPT ![c] =
           Answer(q, IF Unauthorized(authResult) THEN 401 ELSE 200,
                  [error |-> authResult.error])]
  /\ UNCHANGED <<products, discounts, transactions, transactionItems,
                 transactionIdSeq, transactionItemIdSeq, req,
                 productIdSeq, discountIdSeq>>

\* the authorization of concurrent requests, over every shape of header
NextAuth ==
  \E c \in Callers, headers \in AuthHeaders, queryFails \in BOOLEAN :
    Authorize(c, headers, queryFails)

SpecAuth == Init /\ [][NextAuth]_vars

\* the bodies of the specification of the guard: one per endpoint with a body
GuardOrderBody ==
  [items |-> <<[product_id |-> 1, quantity |-> 1]>>, discount_code |-> "ALL25",
   created_at |-> None]

GuardProductBody ==
  [name |-> "baru", price |-> 100, cogs |-> 50, stock |-> None,
   bundle_quantity |-> None, bundle_price |-> None]

GuardProductUpdate ==
  [name |-> Some("lama"), price |-> None, cogs |-> None, stock |-> None,
   bundle_quantity |-> None, bundle_price |-> None]

GuardDiscountBody ==
  [code |-> "BARU", type |-> "for_all_item", percentage |-> 1000, product_id |-> None]

GuardDiscountUpdate ==
  [code |-> None, type |-> None, percentage |-> Some(500), product_id |-> None]

\* every endpoint of products, discounts and transactions, called with every
\* shape of Authorization header and with a session lookup that works or fails
NextGuard ==
  \/ \E headers \in AuthHeaders, queryFails \in BOOLEAN :
       \/ Handle(1, headers, queryFails, GuardOrderBody)
       \/ GetTransaction(1, headers, queryFails, 1)
       \/ CreateProduct(1, headers, queryFails, GuardProductBody)
       \/ ListProducts(1, headers, queryFails, None, 0, 100)
       \/ GetProduct(1, headers, queryFails, 1)
       \/ PatchProduct(1, headers, queryFails, MaxProducts, GuardProductUpdate)
       \/ DeleteProduct(1, headers, queryFails, MaxProducts)
       \/ CreateDiscount(1, headers, queryFails, GuardDiscountBody)
       \/ PatchDiscount(1, headers, queryFails, 2, GuardDiscountUpdate)
  \/ LoadDiscount(1)
  \/ TxInsertTransaction(1)
  \/ TxUpdateStock(1)
  \/ TxInsertItem(1)
  \/ TxCommit(1)
  \/ TxFail(1)
  \/ GetTransactionItems(1)
  \/ PatchProductUpdate(1)
  \/ DeleteProductDelete(1)
  \/ CreateDiscountCode(1)
  \/ CreateDiscountInsert(1)
  \/ PatchDiscountProduct(1)
  \/ PatchDiscountCode(1)
  \/ PatchDiscountUpdate(1)

SpecGuard == Init /\ [][NextGuard]_vars

\* the request bodies of the specification of the core: an order with the
\* whole-order discount code, and an order of another product
CoreBodies ==
  { [items |-> <<[product_id |-> 1, quantity |-> 1]>>, discount_code |-> "ALL25",
     created_at |-> None],
    [items |-> <<[product_id |-> 2, quantity |-> 1]>>, discount_code |-> "",
     created_at |-> None] }

\* the caller of the specification of the core: a session of the first organization
CoreHeaders == Some(<<"Bearer", "tokX">>)

\* POST /transactions arrives, among the calls of the other endpoints
ReceiveCore ==
  /\ req[1].pc = "idle"
  /\ \E body \in CoreBodies : Handle(1, CoreHeaders, FALSE, body)

\* one createTransaction call among the calls of every other endpoint of
\* products, discounts and transactions, by callers of one organization
NextCore ==
  \/ ReceiveCore
  \/ LoadDiscount(1)
  \/ TxInsertTransaction(1)
  \/ TxUpdateStock(1)
  \/ TxInsertItem(1)
  \/ TxCommit(1)
  \/ TxFail(1)
  \/ CreateProduct(1, CoreHeaders, FALSE, GuardProductBody)
  \/ ListProducts(1, CoreHeaders, FALSE, None, DefaultOffset, DefaultLimit)
  \/ GetProduct(1, CoreHeaders, FALSE, 1)
  \/ PatchProduct(1, CoreHeaders, FALSE, 1, GuardProductUpdate)
  \/ PatchProductUpdate(1)
  \/ \E id \in {1, 2} : DeleteProduct(1, CoreHeaders, FALSE, id)
  \/ DeleteProductDelete(1)
  \/ CreateDiscount(1, CoreHeaders, FALSE, GuardDiscountBody)
  \/ CreateDiscountCode(1)
  \/ CreateDiscountInsert(1)
  \/ PatchDiscount(1, CoreHeaders, FALSE, 2, GuardDiscountUpdate)
  \/ PatchDiscountProduct(1)
  \/ PatchDiscountCode(1)
  \/ PatchDiscountUpdate(1)
  \/ DeleteDiscount(1, CoreHeaders, FALSE, 2)
  \/ DeleteDiscountDelete(1)
  \/ GetTransaction(1, CoreHeaders, FALSE, 1)
  \/ GetTransactionItems(1)
  \/ ListTransactions(1, CoreHeaders, FALSE, [offset |-> None, limit |-> None])
  \/ ListTransactionItems(1)
  \/ ListTransactionProducts(1)
  \/ ListTransactionsFail(1)

SpecCore == Init /\ [][NextCore]_vars

----------------------------------------------------------------------------
(* The connection pool: new Pool({ max, idleTimeoutMillis,
   connectionTimeoutMillis }) of src/db/index.ts, shared by db (drizzle) and
   by pool.query.  A client is checked out by pool.connect and given back by
   release; pool.query checks a client out for one statement; db.transaction
   checks one out from BEGIN to COMMIT or ROLLBACK.  The closing of clients
   that stay idle (idleTimeoutMillis) is not modelled: the pool's clients
   stay open. *)

\* max: 3
max == 3

\* the users of the pool: a createTransaction request inside db.transaction,
\* and a call that issues a statement through pool.query
ReqProc(r) == <<"req", r>>
CallProc(c) == <<"call", c>>

\* the uncommitted rows of a client's open transaction
NoUncommitted == [organization |-> {}, member |-> {}]

\* a client just connected, checked out by p: no transaction open ("none";
\* "open" after BEGIN, "aborted" after an error inside a transaction)
NewClient(p) == [holder |-> Some(p), tx |-> "none", writes |-> NoUncommitted]

Holds(p) == \E k \in DOMAIN clients : clients[k].holder = Some(p)
ClientOf(p) == CHOOSE k \in DOMAIN clients : clients[k].holder = Some(p)
Pending(p) == \E i \in 1..Len(pendingQueue) : pendingQueue[i] = p
CheckedOut == { k \in DOMAIN clients : IsSome(clients[k].holder) }

\* the number of the next client the pool opens
NextClientId ==
  CHOOSE k \in 1..(Cardinality(DOMAIN clients) + 1) :
    /\ k \notin DOMAIN clients
    /\ \A j \in 1..(k - 1) : j \in DOMAIN clients

\* mutant: beyond max the pool opens up to five overflow clients
Connect_Overflow(p) ==
  IF idle # <<>>
  THEN /\ clients' = [clients EXCEPT ![idle[Len(idle)]].holder = Some(p)]
       /\ idle' = SubSeq(idle, 1, Len(idle) - 1)
       /\ UNCHANGED pendingQueue
  ELSE IF Cardinality(DOMAIN clients) < max + 5
  THEN /\ clients' = clients @@ (NextClientId :> NewClient(p))
       /\ UNCHANGED <<idle, pendingQueue>>
  ELSE /\ pendingQueue' = Append(pendingQueue, p)
       /\ UNCHANGED <<clients, idle>>

\* pool.connect: the idle client released last; else, below max, a new client;
\* else the caller waits in the queue
Connect(p) ==
  IF idle # <<>>
  THEN /\ clients' = [clients EXCEPT ![idle[Len(idle)]].holder = Some(p)]
       /\ idle' = SubSeq(idle, 1, Len(idle) - 1)
       /\ UNCHANGED pendingQueue
  ELSE IF Cardinality(DOMAIN clients) < max
  THEN /\ clients' = clients @@ (NextClientId :> NewClient(p))
       /\ UNCHANGED <<idle, pendingQueue>>
  ELSE /\ pendingQueue' = Append(pendingQueue, p)
       /\ UNCHANGED <<clients, idle>>

\* release: client k, left in the state `after`, goes to the first waiter of
\* the queue, or becomes idle
Release(k, after) ==
  IF pendingQueue # <<>>
  THEN /\ clients' = [clients EXCEPT ![k] =
                        [after EXCEPT !.holder = Some(Head(pendingQueue))]]
       /\ pendingQueue' = Tail(pendingQueue)
       /\ UNCHANGED idle
  ELSE /\ clients' = [clients EXCEPT ![k] = [after EXCEPT !.holder = None]]
       /\ idle' = Append(idle, k)
       /\ UNCHANGED pendingQueue

\* connectionTimeoutMillis: a waiter that got no client in time leaves the
\* queue, and its pool.connect rejects
ConnectTimeout(p) ==
  /\ Pending(p)
  /\ pendingQueue' = SelectSeq(pendingQueue, LAMBDA x : x # p)
  /\ UNCHANGED <<clients, idle>>

\* a statement issued now gets a client: an idle one, or a new one
PoolAvailable == idle # <<>> \/ Cardinality(DOMAIN clients) < max

\* db.transaction starts: the request checks a client out, or waits for one
TxConnect(r) ==
  /\ req[r].pc = "begin"
  /\ ~Holds(ReqProc(r)) /\ ~Pending(ReqProc(r))
  /\ Connect(ReqProc(r))
  /\ UNCHANGED <<organization, member>>
  /\ UNCHANGED <<products, discounts, transactions, transactionItems,
                 transactionIdSeq, transactionItemIdSeq, req>>
  /\ UNCHANGED apiVars

\* the request got no client in time: db.transaction rejects before BEGIN
TxConnectTimeout(r) ==
  /\ req[r].pc = "begin"
  /\ ConnectTimeout(ReqProc(r))
  /\ req' = [req EXCEPT ![r] = Responded(req[r], 500, "Internal")]
  /\ UNCHANGED <<organization, member>>
  /\ UNCHANGED <<products, discounts, transactions, transactionItems,
                 transactionIdSeq, transactionItemIdSeq>>
  /\ UNCHANGED apiVars

\* a statement of the transaction, on the client the request has checked out
TxStatement(r) ==
  /\ Holds(ReqProc(r))
  /\ \/ TxInsertTransaction(r)
     \/ TxUpdateStock(r)
     \/ TxInsertItem(r)
     \/ TxCommit(r)

\* a statement of the transaction fails, on the client checked out
TxStatementFails(r) == Holds(ReqProc(r)) /\ TxFail(r)

\* db.transaction ends, by COMMIT or by ROLLBACK: the client is released
TxRelease(r) ==
  /\ req[r].pc = "done"
  /\ Holds(ReqProc(r))
  /\ Release(ClientOf(ReqProc(r)), clients[ClientOf(ReqProc(r))])
  /\ UNCHANGED <<organization, member>>
  /\ UNCHANGED <<products, discounts, transactions, transactionItems,
                 transactionIdSeq, transactionItemIdSeq, req>>
  /\ UNCHANGED apiVars

\* the order of the requests that share the pool, and their session
PoolBody ==
  [items |-> <<[product_id |-> 1, quantity |-> 1]>>, discount_code |-> "",
   created_at |-> None]

PoolHeaders == Some(<<"Bearer", "tokX">>)

\* POST /transactions arrives: its lookups before db.transaction each take a
\* client for one statement, and fail (after waiting connectionTimeoutMillis)
\* when none is to be had
ReceivePooled(r) ==
  /\ req[r].pc = "idle"
  /\ Handle(r, PoolHeaders, ~PoolAvailable, PoolBody)

\* getActiveOrganizationId's pool.query: the call asks the pool for a client
SessionQueryConnect(c, headers) ==
  /\ Arrives(c)
  /\ Connect(CallProc(c))
  /\ call' = [call EXCEPT ![c] =
       [IdleCall EXCEPT !.op = "authorize", !.pc = "session",
                        !.body = [headers |-> headers, queryFails |-> FALSE]]]
  /\ UNCHANGED <<organization, member>>
  /\ UNCHANGED <<products, discounts, transactions, transactionItems,
                 transactionIdSeq, transactionItemIdSeq, req,
                 productIdSeq, discountIdSeq>>

\* the session lookup runs on the client, which is released; the handler has
\* its authorization
SessionQueryRun(c) ==
  /\ call[c].op = "authorize" /\ call[c].pc = "session"
  /\ Holds(CallProc(c))
  /\ Release(ClientOf(CallProc(c)), clients[ClientOf(CallProc(c))])
  /\ LET authResult == GetOrganizationIdFromHeaders(call[c].body.headers, FALSE)
     IN  call' = [call EXCEPT ![c] =
           Answer([call[c] EXCEPT !.organizationId = authResult.organizationId],
                  IF Unauthorized(authResult) THEN 401 ELSE 200,
                  [error |-> authResult.error])]
  /\ UNCHANGED <<organization, member>>
  /\ UNCHANGED <<products, discounts, transactions, transactionItems,
                 transactionIdSeq, transactionItemIdSeq, req,
                 productIdSeq, discountIdSeq>>

\* the call got no client in time: pool.query rejects, which
\* getActiveOrganizationId catches and reports
SessionQueryTimeout(c) ==
  /\ call[c].op = "authorize" /\ call[c].pc = "session"
  /\ ConnectTimeout(CallProc(c))
  /\ LET authResult == GetOrganizationIdFromHeaders(call[c].body.headers, TRUE)
     IN  call' = [call EXCEPT ![c] =
           Answer([call[c] EXCEPT !.body.queryFails = TRUE], 401,
                  [error |-> authResult.error])]
  /\ UNCHANGED <<organization, member>>
  /\ UNCHANGED <<products, discounts, transactions, transactionItems,
                 transactionIdSeq, transactionItemIdSeq, req,
                 productIdSeq, discountIdSeq>>

\* a session lookup arrives, once per caller
ReceiveSessionQuery(c) ==
  /\ call[c].pc = "idle"
  /\ SessionQueryConnect(c, PoolHeaders)

\* createTransaction requests and session lookups sharing the pool
NextPool ==
  \/ \E r \in Requests :
       \/ ReceivePooled(r)
       \/ TxConnect(r)
       \/ TxConnectTimeout(r)
       \/ TxStatement(r)
       \/ TxStatementFails(r)
       \/ TxRelease(r)
  \/ \E c \in Callers :
       \/ ReceiveSessionQuery(c)
       \/ SessionQueryRun(c)
       \/ SessionQueryTimeout(c)

\* the database answers the statements it is sent and a returned handler runs
\* its release: the pool's users are not all left waiting while one of them
\* has a statement to run or a client to give back
PoolProgress ==
  \/ \E r \in Requests : TxStatement(r) \/ TxRelease(r)
  \/ \E c \in Callers : SessionQueryRun(c)

PoolFairness == WF_vars(PoolProgress)

SpecPool == Init /\ [][NextPool]_vars /\ PoolFairness

----------------------------------------------------------------------------
(* POST /organizations: src/routes/organizations.ts.  Every statement of the
   handler, BEGIN, COMMIT and ROLLBACK included, is sent through pool.query:
   it runs on whichever client the pool hands out for it. *)

\* the guard of the organizations routes: the user of the bearer token's
\* session (the users of the model are named by their session's token)
GetUserIdFromHeaders(headers, queryFails) ==
  LET token == ExtractBearerToken(headers)
  IN  IF ~IsSome(token) \/ token = Some("") THEN [userId |-> None, error |-> Some("MalformedHeader")]
      ELSE IF queryFails THEN [userId |-> None, error |-> Some("DatabaseError")]
      ELSE IF \E session \in Sessions :
                session.token = Val(token) /\ session.expiresAt >= Now
      THEN [userId |-> token, error |-> None]
      ELSE [userId |-> None, error |-> Some("SessionNotFound")]

\* `${baseSlug}-${counter}`; counter 0 stands for baseSlug itself
Slug(baseSlug, counter) == <<baseSlug, counter>>

\* the rows of neon_auth.organization a statement on client k sees: the
\* committed ones and those of the client's own open transaction
VisibleOrganizations(k) == organization \cup clients[k].writes.organization

SlugTaken(k, slug) == \E o \in VisibleOrganizations(k) : o.slug = slug

\* an insert of a slug that another session has inserted and not yet committed
\* waits for that session's transaction to end
SlugHeldByOther(k, slug) ==
  \E j \in DOMAIN clients \ {k} :
    \E o \in clients[j].writes.organization : o.slug = slug

\* the database runs a statement on client k: the state of the client's
\* session, the committed tables and the error code after it.  In a
\* transaction that has failed every statement but COMMIT and ROLLBACK fails
\* (25P02), and COMMIT rolls back; outside a transaction an insert is
\* committed on its own; BEGIN inside a transaction and COMMIT or ROLLBACK
\* outside one only warn.
Exec(statement, row, k, queryFails) ==
  LET client == clients[k]
      same == [client |-> client, organization |-> organization,
               member |-> member, error |-> ""]
      Failed(code) ==
        [same EXCEPT !.client.tx = IF client.tx = "none" THEN "none" ELSE "aborted",
                     !.error = code]
      Inserted(table) ==
        IF client.tx = "open"
        THEN [same EXCEPT !.client.writes[table] = @ \cup {row}]
        ELSE [same EXCEPT ![table] = @ \cup {row}]
      ended == [same EXCEPT !.client.tx = "none", !.client.writes = NoUncommitted]
  IN  CASE statement = "ROLLBACK" -> ended
        [] statement = "COMMIT" ->
             IF client.tx = "open"
             THEN [ended EXCEPT
                     !.organization = @ \cup client.writes.organization,
                     !.member = @ \cup client.writes.member]
             ELSE ended
        [] client.tx = "aborted" -> Failed("25P02")
        [] queryFails -> Failed("XX000")
        [] statement = "BEGIN" -> [same EXCEPT !.client.tx = "open"]
        [] statement = "INSERT organization" ->
             IF SlugTaken(k, row.slug) THEN Failed("23505")
             ELSE Inserted("organization")
        [] statement = "INSERT member" -> Inserted("member")
        [] OTHER -> same

\* the row a statement of the call inserts
OrganizationRow(q) == [id |-> q.id, slug |-> q.local.slug]
MemberRow(q) ==
  [organizationId |-> q.id, userId |-> q.local.userId, role |-> "admin"]

RowOf(q) ==
  IF q.pc = "INSERT member" THEN MemberRow(q) ELSE OrganizationRow(q)

\* the handler after the statement at q.pc has run on client k: the guard,
\* ensureUniqueSlug's loop, the try block statement by statement, and the catch
\* block, which sends ROLLBACK and answers by the error's code
OrgContinue(q, after, taken) ==
  LET caught == [q EXCEPT !.pc = "ROLLBACK", !.local.code = after.error,
                          !.local.failed = q.pc]
  IN  CASE q.pc = "session" ->
             IF after.error # ""
             THEN Answer(q, 401, [error |-> Some("Unauthorized"), details |-> ""])
             ELSE [q EXCEPT !.pc = "slug"]
        [] q.pc = "slug" ->
             IF after.error # "" THEN Answer(q, 500, [error |-> Some("Internal"), details |-> "slug"])
             ELSE IF taken
             THEN [q EXCEPT !.local.slug = Slug(q.local.slug[1], q.local.slug[2] + 1)]
             ELSE [q EXCEPT !.pc = "BEGIN"]
        [] q.pc = "BEGIN" ->
             IF after.error # "" THEN caught ELSE [q EXCEPT !.pc = "INSERT organization"]
        [] q.pc = "INSERT organization" ->
             IF after.error # "" THEN caught ELSE [q EXCEPT !.pc = "INSERT member"]
        [] q.pc = "INSERT member" ->
             IF after.error # "" THEN caught ELSE [q EXCEPT !.pc = "COMMIT"]
        [] q.pc = "COMMIT" ->
             Answer(q, 201, [error |-> None, details |-> ""])
        [] OTHER ->
             IF q.local.code = "23505"
             THEN Answer(q, 409, [error |-> Some("SlugExists"), details |-> q.local.failed])
             ELSE Answer(q, 500, [error |-> Some("Failed"), details |-> q.local.failed])

\* POST /organizations arrives: without a bearer token it is refused; else the
\* handler asks the pool for a client for the session lookup.  organizationId
\* is randomUUID(): the caller's number, each caller making one call.
CreateOrganization(c, headers, body) ==
  /\ call[c].pc = "idle"
  /\ LET authResult == GetUserIdFromHeaders(headers, FALSE)
         q == [IdleCall EXCEPT !.op = "createOrganization", !.id = c,
                               !.body = body,
                               !.local = [userId |-> IF IsSome(authResult.userId)
                                                     THEN Val(authResult.userId) ELSE "",
                                          slug |-> Slug(body.name, 0),
                                          code |-> "", failed |-> ""]]
     IN  IF ~IsSome(ExtractBearerToken(headers))
         THEN /\ call' = [call EXCEPT ![c] =
                   Answer(q, 401, [error |-> Some("Unauthorized"), details |-> ""])]
              /\ UNCHANGED poolVars
         ELSE /\ call' = [call EXCEPT ![c] = [q EXCEPT !.pc = "session"]]
              /\ Connect(CallProc(c))
  /\ UNCHANGED <<organization, member>>
  /\ UNCHANGED <<products, discounts, transactions, transactionItems,
                 transactionIdSeq, transactionItemIdSeq, req,
                 productIdSeq, discountIdSeq>>

\* pool.query of the next statement: the handler asks the pool for a client
OrgConnect(c) ==
  /\ call[c].op = "createOrganization"
  /\ call[c].pc \notin {"idle", "done"}
  /\ ~Holds(CallProc(c)) /\ ~Pending(CallProc(c))
  /\ Connect(CallProc(c))
  /\ UNCHANGED <<organization, member, call>>
  /\ UNCHANGED <<products, discounts, transactions, transactionItems,
                 transactionIdSeq, transactionItemIdSeq, req,
                 productIdSeq, discountIdSeq>>

\* the statement runs on the client the pool handed out, and the client is
\* released; the handler goes on to its next statement, or returns
OrgRun(c, queryFails) ==
  /\ call[c].op = "createOrganization"
  /\ call[c].pc \notin {"idle", "done"}
  /\ Holds(CallProc(c))
  /\ LET q == call[c]
         k == ClientOf(CallProc(c))
         after == Exec(q.pc, RowOf(q), k, queryFails)
     IN  /\ queryFails => q.pc \in {"INSERT organization", "INSERT member"}
         /\ q.pc = "INSERT organization" => ~SlugHeldByOther(k, q.local.slug)
         /\ Release(k, after.client)
         /\ organization' = after.organization
         /\ member' = after.member
         /\ call' = [call EXCEPT ![c] = OrgContinue(q, after, SlugTaken(k, q.local.slug))]
  /\ UNCHANGED <<products, discounts, transactions, transactionItems,
                 transactionIdSeq, transactionItemIdSeq, req,
                 productIdSeq, discountIdSeq>>

\* the requests to POST /organizations: with and without a bearer token, all
\* for the same name
OrganizationHeaders == { None, Some(<<"Bearer", "tokX">>) }
OrganizationBodies == { [name |-> "toko"] }

\* concurrent POST /organizations calls sharing the pool
NextOrganizations ==
  \E c \in Callers :
       \/ \E headers \in OrganizationHeaders, body \in OrganizationBodies :
            CreateOrganization(c, headers, body)
       \/ OrgConnect(c)
       \/ \E queryFails \in BOOLEAN : OrgRun(c, queryFails)

SpecOrganizations == Init /\ [][NextOrganizations]_vars

----------------------------------------------------------------------------
(* Claims *)

Started == { r \in Requests : req[r].pc # "idle" }

\* the requests whose loop has run and which hold itemsToCreate and totalAmount
Priced == { r \in Requests : req[r].pc \in {"begin", "update", "insert", "commit"} }

Committed == { r \in Requests : req[r].pc = "done" /\ req[r].status = 201 }

ItemsOf(id) == { it \in transactionItems : it.transactionId = id }

RECURSIVE SumQuantity(_)
SumQuantity(S) ==
  IF S = {} THEN 0
  ELSE LET it == CHOOSE x \in S : TRUE IN it.quantity + SumQuantity(S \ {it})

RECURSIVE SumPrice(_)
SumPrice(S) ==
  IF S = {} THEN 0
  ELSE LET it == CHOOSE x \in S : TRUE IN it.price + SumPrice(S \ {it})

\* the quantity of product p in the stored items of transaction id
QuantityOf(id, p) == SumQuantity({ it \in ItemsOf(id) : it.productId = p })

\* the line total as the pricing contract states it: p is the flat price of one
\* whole bundle of n units
SpecifiedLineTotal(u, bundleQuantity, bundlePrice, q) ==
  IF IsSome(bundleQuantity) /\ IsSome(bundlePrice) /\ q >= Val(bundleQuantity)
  THEN (q \div Val(bundleQuantity)) * Val(bundlePrice) + (q % Val(bundleQuantity)) * u
  ELSE q * u

ParsedBundlePrice(product) ==
  IF IsSome(product.bundlePrice) THEN Some(ParseWhole(Val(product.bundlePrice))) ELSE None

\* C1: every line item (no single-product discount on it) of a product with unit
\* price u and bundle tier (n, p) has line total floor(q/n)*p + (q mod n)*u when
\* q >= n, and q*u when q < n or the product has no bundle tier.
C1_LineTotalIsWholeBundlesPlusRemainder ==
  \A r \in Priced :
    \A i \in 1..Len(req[r].itemsToCreate) :
      LET item == req[r].itemsToCreate[i]
          product == req[r].productDict[item.productId]
      IN  ~ItemDiscountApplies(req[r].discount, item.productId)
            => item.price = SpecifiedLineTotal(ParsePrice(product.price),
                                               product.bundleQuantity,
                                               ParsedBundlePrice(product),
                                               item.quantity)

\* C2: every product's stock is >= 0 in every reachable state.
C2_StockNeverNegative ==
  \A p \in DOMAIN products : products[p].stock >= 0

\* a committed request whose order was one item: the product's whole initial stock
TookWholeStock(r, p) ==
  /\ r \in Committed
  /\ \E it \in ItemsOf(req[r].transactionId) :
       /\ ItemsOf(req[r].transactionId) = {it}
       /\ it.productId = p
       /\ it.quantity = Catalog[p].stock

\* C3: two createTransaction calls that each ask for exactly the full stock of
\* the same product never both succeed.
C3_FullStockOrdersNeverBothSucceed ==
  \A r1, r2 \in Requests : \A p \in ProductIds :
    r1 # r2 => ~(TookWholeStock(r1, p) /\ TookWholeStock(r2, p))

HasRow(id) == \E t \in transactions : t.id = id

\* C4: the commit is all-or-nothing. A request that committed has its
\* transaction row and one item row per item asked for; a request that did not
\* (still running, or failed) has neither row nor items; every stored row
\* belongs to a committed request; and each product's stock is lower than at
\* the start by exactly the quantities of the stored items, so that a failed
\* commit has left no decrement behind.
C4_CommitIsAllOrNothing ==
  /\ \A r \in Started :
       IF r \in Committed
       THEN /\ HasRow(req[r].transactionId)
            /\ Cardinality(ItemsOf(req[r].transactionId)) = req[r].nItems
       ELSE /\ ~HasRow(req[r].transactionId)
            /\ ItemsOf(req[r].transactionId) = {}
  /\ \A t \in transactions : \E r \in Committed : req[r].transactionId = t.id
  /\ \A it \in transactionItems : \E r \in Committed : req[r].transactionId = it.transactionId
  /\ \A p \in ProductIds :
       Catalog[p].stock - products[p].stock
         = SumQuantity({ it \in transactionItems : it.productId = p })

\* C4 witness: a request failed inside its commit after an item insert (an item
\* id was drawn and no row has it) and another committed a two-item order.
C4_Witness ==
  /\ \E r \in Requests : req[r].pc = "done" /\ req[r].status = 500 /\ req[r].transactionId > 0
  /\ transactionItemIdSeq > Cardinality(transactionItems)
  /\ \E r \in Committed : req[r].nItems = 2

\* C5: when exactly two createTransaction calls have committed, each product's
\* stock is its initial stock minus the quantities of the one and of the other.
C5_NoDecrementIsLost ==
  \A r1, r2 \in Committed :
    (r1 # r2 /\ Committed = {r1, r2}) =>
      \A p \in ProductIds :
        products[p].stock = Catalog[p].stock
                              - QuantityOf(req[r1].transactionId, p)
                              - QuantityOf(req[r2].transactionId, p)

\* C5 witness: two committed calls with an item of the same product each, whose
\* transactions overlapped (the one that began first inserted its item last).
C5_Witness ==
  \E r1, r2 \in Committed :
    /\ req[r1].transactionId < req[r2].transactionId
    /\ \E i1 \in ItemsOf(req[r1].transactionId), i2 \in ItemsOf(req[r2].transactionId) :
         i1.productId = i2.productId /\ i2.id < i1.id

\* the stored discount a transaction's code names, if any
DiscountOf(t) ==
  IF IsSome(t.discount) /\ (\E d \in discounts : d.code = Val(t.discount))
  THEN Some(CHOOSE d \in discounts : d.code = Val(t.discount))
  ELSE None

\* a discount of whole-order scope
IsWholeOrderScope(discount) ==
  IsSome(discount) /\ Val(discount).type = "for_all_item"

\* the sum of a transaction's stored line totals, less the whole-order
\* discount when its discount is of whole-order scope; in micros
DiscountedStoredSum(t) ==
  LET sum == SumPrice(ItemsOf(t.id)) * Cent
  IN  IF IsWholeOrderScope(DiscountOf(t))
      THEN sum - DiscountAmount(sum, DiscountOf(t))
      ELSE sum

\* C6 (as claimed): every stored transaction's total_amount equals the sum of
\* its stored line totals, reduced by the whole-order discount percentage when
\* its discount is of whole-order scope, and equals that sum otherwise.
C6_TotalIsDiscountedStoredSum ==
  \A t \in transactions : t.totalAmount * Cent = DiscountedStoredSum(t)

\* C6 (amended): the two agree up to the rounding of each stored value to two
\* decimals (half a cent for the total and half a cent per item), and exactly
\* when the transaction carries no discount code.
C6_TotalIsDiscountedStoredSumUpToRounding ==
  \A t \in transactions :
    /\ Abs(t.totalAmount * Cent - DiscountedStoredSum(t))
         <= (Cardinality(ItemsOf(t.id)) + 1) * (Cent \div 2)
    /\ t.discount = None => t.totalAmount * Cent = DiscountedStoredSum(t)

\* C6 witness: a stored transaction with a whole-order discount whose stored
\* total differs from the discounted sum of its stored line totals.
C6_Witness ==
  \E t \in transactions :
    /\ IsWholeOrderScope(DiscountOf(t))
    /\ ItemsOf(t.id) # {}
    /\ t.totalAmount * Cent # DiscountedStoredSum(t)

\* the bundle-adjusted value of the i-th item of a priced request
BundleAdjusted(r, i) ==
  LET item == req[r].itemsToCreate[i]
      product == req[r].productDict[item.productId]
  IN  BundleLineTotal(ParsePrice(product.price), product.bundleQuantity,
                      ParsedBundlePrice(product), item.quantity)

\* amount * (1 - d/100), for an amount that is a whole number of cents
LessPercent(amount, discount) ==
  (amount \div Cent) * (PctDenominator - Val(discount).percentage)

IsSingleProductDiscount(discount) ==
  IsSome(discount) /\ Val(discount).type = "individual_item"
                   /\ IsSome(Val(discount).productId)

\* C7: with a single-product discount of d%, the line total of every item of
\* the discount's product is its bundle-adjusted value T times (1 - d/100), and
\* the line total of every item of another product is its bundle-adjusted value.
C7_SingleProductDiscountOnItsProductOnly ==
  \A r \in Priced :
    IsSingleProductDiscount(req[r].discount) =>
      \A i \in 1..Len(req[r].itemsToCreate) :
        LET item == req[r].itemsToCreate[i]
        IN  IF item.productId = Val(Val(req[r].discount).productId)
            THEN /\ BundleAdjusted(r, i) % Cent = 0
                 /\ item.price = LessPercent(BundleAdjusted(r, i), req[r].discount)
            ELSE item.price = BundleAdjusted(r, i)

\* C7 witness: a priced order with a single-product discount, one item of the
\* discount's product and one item of another product.
C7_Witness ==
  \E r \in Priced :
    /\ IsSingleProductDiscount(req[r].discount)
    /\ Val(req[r].discount).percentage > 0
    /\ \E i, j \in 1..Len(req[r].itemsToCreate) :
         /\ req[r].itemsToCreate[i].productId = Val(Val(req[r].discount).productId)
         /\ req[r].itemsToCreate[j].productId # Val(Val(req[r].discount).productId)
         /\ req[r].itemsToCreate[i].price > 0

\* the sum of the line totals of a priced request
LineTotalSum(r) ==
  SumSeq([i \in 1..Len(req[r].itemsToCreate) |-> req[r].itemsToCreate[i].price])

\* C8: with a whole-order discount of d%, total_amount is the sum of the line
\* totals times (1 - d/100), the discount taken once, and every line total,
\* computed and written, is the item's bundle-adjusted value.
C8_WholeOrderDiscountOnceOnTheSum ==
  \A r \in Priced :
    IsWholeOrderScope(req[r].discount) =>
      /\ LineTotalSum(r) % Cent = 0
      /\ req[r].totalAmount = LessPercent(LineTotalSum(r), req[r].discount)
      /\ \A i \in 1..Len(req[r].itemsToCreate) :
           req[r].itemsToCreate[i].price = BundleAdjusted(r, i)
      /\ \A i \in 1..Len(req[r].writes.items) :
           req[r].writes.items[i].price * Cent = BundleAdjusted(r, i)

\* C8 witness: a two-item order with a whole-order discount, both items written.
C8_Witness ==
  \E r \in Priced :
    /\ IsWholeOrderScope(req[r].discount)
    /\ Val(req[r].discount).percentage > 0
    /\ Len(req[r].writes.items) = 2
    /\ req[r].totalAmount > 0

\* the cost of the goods of a priced request: product cogs * quantity per item
CostOfGoods(r) ==
  SumSeq([i \in 1..Len(req[r].itemsToCreate) |->
            req[r].productDict[req[r].itemsToCreate[i].productId].cogs
              * req[r].itemsToCreate[i].quantity])

C10_EmptyOrderRejectedWithoutWrites ==
  [][\A r \in Requests :
       (/\ req[r].pc = "idle" /\ req'[r].pc # "idle"
        /\ IsSome(req'[r].organizationId) /\ req'[r].nItems = 0) =>
         /\ req'[r].pc = "done"
         /\ req'[r].status = 400
         /\ req'[r].error = "EmptyOrder"
         /\ req'[r].transactionId = 0
         /\ products' = products
         /\ transactions' = transactions
         /\ transactionItems' = transactionItems]_vars

\* C10 witness: a call with no item was answered 400.
C10_Witness ==
  \E r \in Requests :
    req[r].pc = "done" /\ req[r].nItems = 0 /\ req[r].status = 400
      /\ req[r].error = "EmptyOrder" /\ IsSome(req[r].organizationId)

\* the calls that ended with one of the failures of validation and lookup
FailedValidation ==
  { r \in Requests :
      /\ req[r].pc = "done"
      /\ req[r].error \in {"ProductsNotFound", "DiscountNotFound", "InsufficientStock"} }

\* C11: when the call fails with ProductsNotFound (404), DiscountNotFound (404)
\* or InsufficientStock (400), every product, with its stock, and the sets of
\* transactions and transaction items are as before the call (the call being
\* the only one, as at the start), and no id was drawn for a row.
C11_ValidationFailureWritesNothing ==
  \A r \in FailedValidation :
    /\ req[r].status = (IF req[r].error = "InsufficientStock" THEN 400 ELSE 404)
    /\ products = Catalog
    /\ transactions = {}
    /\ transactionItems = {}
    /\ transactionIdSeq = 0
    /\ transactionItemIdSeq = 0

\* C11 witness: a two-item call that failed for the stock of its second item.
C11_Witness ==
  \E r \in FailedValidation :
    req[r].error = "InsufficientStock" /\ req[r].nItems = 2 /\ req[r].queries = 1

\* the calls that have passed the batch load of their products
Loaded == { r \in Requests : req[r].pc \in {"discount", "begin", "update", "insert", "commit"} }

OwnedTransactions(id, organizationId) ==
  { t \in transactions : t.id = id /\ t.organizationId = organizationId }

OwnProducts(organizationId) ==
  { p \in DOMAIN products : products[p].organizationId = organizationId }

\* caller c enters a handler in this step, as an authorized caller
Enters(c, op) ==
  /\ Arrives(c) /\ call'[c] # call[c]
  /\ call'[c].op = op
  /\ IsSome(call'[c].organizationId)
  /\ call'[c].status # 422

C16_DiscountScopeMatchesProductReference ==
  \A d \in discounts :
    /\ d.type = "individual_item" =>
         /\ IsSome(d.productId)
         /\ Val(d.productId) \in DOMAIN products
         /\ products[Val(d.productId)].organizationId = d.organizationId
    /\ d.type = "for_all_item" => d.productId = None

\* a stored discount with the code, in the organization, other than row id
CodeHeldByAnother(code, organizationId, id) ==
  \E d \in discounts : d.code = code /\ d.organizationId = organizationId /\ d.id # id

\* C17: no two stored discounts of one organization have the same code, under
\* any interleaving of creates and updates; a statement that would store a code
\* another discount of the organization holds stores nothing and the call is
\* rejected (400 from the handler's check, an error from the unique constraint).
C17_CodesUniquePerOrganization ==
  /\ [](\A d1, d2 \in discounts :
          (d1.id = d2.id => d1 = d2)
          /\ ((d1.id # d2.id /\ d1.organizationId = d2.organizationId)
                => d1.code # d2.code))
  /\ [][\A c \in Callers :
          call'[c] # call[c] =>
            /\ (/\ call[c].op = "createDiscount" /\ call[c].pc \in {"code", "insert"}
                /\ CodeHeldByAnother(call[c].local.code, call[c].organizationId, 0))
                 => /\ discounts' = discounts
                    /\ call'[c].pc = "done"
                    /\ call'[c].status = (IF call[c].pc = "code" THEN 400 ELSE 500)
            /\ (/\ call[c].op = "patchDiscount" /\ call[c].pc = "update"
                /\ IsSome(call[c].local.body.code)
                /\ CodeHeldByAnother(Val(call[c].local.body.code),
                                      call[c].organizationId, call[c].id))
                 => /\ discounts' = discounts
                    /\ call'[c].pc = "done"
                    /\ call'[c].status = 500
            /\ (/\ call[c].op = "patchDiscount" /\ call[c].pc = "code"
                /\ IsSome(call[c].local.body.code)
                /\ Val(call[c].local.body.code) # call[c].local.existing.code
                /\ CodeHeldByAnother(Val(call[c].local.body.code),
                                      call[c].organizationId, call[c].id))
                 => /\ discounts' = discounts
                    /\ call'[c].pc = "done"
                    /\ call'[c].status = 400]_vars

\* C17 witness: two creates of the same new code in one organization ran
\* together; both passed the check of the code, one stored its discount and
\* the other failed at its insert.
C17_Witness ==
  \E c1, c2 \in Callers :
    /\ call[c1].op = "createDiscount" /\ call[c1].pc = "done" /\ call[c1].status = 201
    /\ call[c2].op = "createDiscount" /\ call[c2].pc = "done" /\ call[c2].status = 500
    /\ call[c1].organizationId = call[c2].organizationId
    /\ call[c1].result.code = "BARU"
    /\ call[c2].queries = 2
    /\ \E d \in discounts : d.id = call[c1].id /\ d.code = "BARU"

\* a body that gives one of bundle_quantity and bundle_price without the other
GivesOneBundleField(body) ==
  IsSome(body.bundle_quantity) # IsSome(body.bundle_price)

\* C18: every stored product has bundle_quantity and bundle_price both present
\* or both absent, and when present bundle_quantity > 0 and bundle_price >= 0;
\* a create, or an update of a product of the caller, whose body gives only one
\* of the two fields is answered 400 and changes no product.
C18_BundleFieldsPaired ==
  /\ [](\A p \in DOMAIN products :
          /\ IsSome(products[p].bundleQuantity) <=> IsSome(products[p].bundlePrice)
          /\ IsSome(products[p].bundleQuantity) =>
               /\ Val(products[p].bundleQuantity) > 0
               /\ Val(products[p].bundlePrice) >= 0)
  /\ [][\A c \in Callers :
          (/\ \/ Enters(c, "createProduct")
              \/ Enters(c, "patchProduct")
                   /\ call'[c].id \in OwnProducts(call'[c].organizationId)
           /\ GivesOneBundleField(call'[c].body)) =>
            /\ call'[c].pc = "done"
            /\ call'[c].status = 400
            /\ products' = products
            /\ productIdSeq' = productIdSeq]_vars

\* C18 witness: a product was created with a bundle tier, and an update of it
\* that gave bundle_quantity alone was answered 400.
C18_Witness ==
  \E c \in Callers :
    /\ call[c].op = "patchProduct" /\ call[c].pc = "done" /\ call[c].status = 400
    /\ GivesOneBundleField(call[c].body)
    /\ call[c].id > Cardinality(DOMAIN Catalog)
    /\ call[c].id \in DOMAIN products
    /\ IsSome(products[call[c].id].bundleQuantity)
    /\ IsSome(products[call[c].id].bundlePrice)

\* the tables of the core
Tables == <<products, discounts, transactions, transactionItems>>

C19_StoredQuantitiesPositive ==
  /\ \A i \in transactionItems : i.quantity > 0
  /\ \A p \in DOMAIN products : products[p].stock <= Catalog[p].stock

\* C20: in every reachable state, every stored transaction has at least one
\* transaction item.
C20_TransactionsHaveItems ==
  \A t \in transactions : ItemsOf(t.id) # {}

\* C20 witness: an order of two lines was committed, and its transaction is
\* stored with both items.
C20_Witness ==
  \E r \in Requests :
    /\ req[r].pc = "done" /\ req[r].status = 201
    /\ \E t \in transactions :
         /\ t.id = req[r].transactionId
         /\ Cardinality(ItemsOf(t.id)) = MaxItems

\* the i-th requested item as a read must show it: its product and quantity,
\* the line total computed for it, as its numeric(10,2) column holds it, and
\* the name of its product
RequestedLine(q, i) ==
  [product_id |-> q.body.items[i].product_id,
   quantity |-> q.body.items[i].quantity,
   price |-> ParsePrice(ToNumeric2(q.itemsToCreate[i].price)),
   product_name |-> products[q.body.items[i].product_id].name]

\* what an item of a response shows of its line
ShownLine(item) ==
  [product_id |-> item.product_id, quantity |-> item.quantity,
   price |-> item.price, product_name |-> item.product_name]

\* the items of a response are the requested items, line for line
ShowsRequestedLines(q, view) ==
  /\ Cardinality(view.items) = Len(q.body.items)
  /\ \A i \in 1..Len(q.body.items) :
       Cardinality({ j \in 1..Len(q.body.items) : RequestedLine(q, j) = RequestedLine(q, i) })
         = Cardinality({ item \in view.items : ShownLine(item) = RequestedLine(q, i) })

\* C21: round trip. The response of a successful createTransaction shows, for
\* each requested item, its product id and quantity, the line total computed at
\* creation (as stored, to two decimals) and its product's name; and GET
\* /transactions/:id for the returned id yields the same items and the same
\* total amount as that creation response.
C21_CreateThenGetRoundTrip ==
  /\ [][\A r \in Requests :
          (req[r].pc = "commit" /\ req'[r].status = 201) =>
            /\ ShowsRequestedLines(req[r], req'[r].result)
            /\ req'[r].result.id = req'[r].transactionId
            /\ req'[r].result.total_amount = ParsePrice(ToNumeric2(req[r].totalAmount))]_vars
  /\ [](\A c \in Callers, r \in Requests :
          (/\ call[c].op = "getTransaction" /\ call[c].pc = "done"
           /\ call[c].status = 200
           /\ req[r].pc = "done" /\ req[r].status = 201
           /\ call[c].id = req[r].transactionId) =>
            /\ call[c].result.id = req[r].result.id
            /\ call[c].result.items = req[r].result.items
            /\ call[c].result.total_amount = req[r].result.total_amount)

\* C21 witness: an order of two items with a discount code was created, and
\* then read by its id.
C21_Witness ==
  \E c \in Callers, r \in Requests :
    /\ req[r].pc = "done" /\ req[r].status = 201
    /\ call[c].op = "getTransaction" /\ call[c].pc = "done" /\ call[c].status = 200
    /\ call[c].id = req[r].transactionId
    /\ Cardinality(call[c].result.items) = 2
    /\ IsSome(call[c].result.discount)

\* what the stored rows hold of the transaction of an id, for a caller of an
\* organization: the transaction and its items, or nothing
StoredView(id, organizationId) ==
  LET owned == OwnedTransactions(id, organizationId)
  IN  IF owned = {} THEN Nothing
      ELSE LET t == CHOOSE t \in owned : TRUE
           IN  [id |-> t.id, total_amount |-> ParsePrice(t.totalAmount),
                created_at |-> t.createdAt, discount |-> t.discount,
                items |-> { ItemView(it) : it \in ItemsOf(id) }]

\* caller c is in, or has ended, a call of GET /transactions/:id
Reads(c) == call[c].op = "getTransaction"

\* C22: GET /transactions/:id is a pure read. No step of it changes a product,
\* a discount, a transaction, a transaction item or a serial id; the data it
\* returns are those of the stored rows at the time of the call, whoever calls
\* and however often; and two calls that returned the transaction of the same
\* id returned identical data.
C22_ReadIsPureAndRepeatable ==
  /\ [][(\E c \in Callers : call'[c] # call[c] /\ call'[c].op = "getTransaction") =>
          /\ Tables' = Tables
          /\ <<transactionIdSeq, transactionItemIdSeq, productIdSeq, discountIdSeq>>'
               = <<transactionIdSeq, transactionItemIdSeq, productIdSeq, discountIdSeq>>
          /\ req' = req]_vars
  /\ [][\A c \in Callers :
          (Reads(c) /\ call[c].pc = "items" /\ call'[c].pc = "done") =>
            /\ call'[c].status = 200
            /\ call'[c].result = StoredView(call[c].id, call[c].organizationId)]_vars
  /\ [](\A c1, c2 \in Callers :
          (/\ Reads(c1) /\ Reads(c2)
           /\ call[c1].pc = "done" /\ call[c2].pc = "done"
           /\ call[c1].status = 200 /\ call[c2].status = 200
           /\ call[c1].id = call[c2].id
           /\ call[c1].organizationId = call[c2].organizationId) =>
            call[c1].result = call[c2].result)

\* C22 witness: two callers have read the same stored transaction, with its
\* items, one after the other.
C22_Witness ==
  \E c1, c2 \in Callers :
    /\ c1 # c2
    /\ Reads(c1) /\ Reads(c2)
    /\ call[c1].pc = "done" /\ call[c2].pc = "done"
    /\ call[c1].status = 200 /\ call[c2].status = 200
    /\ call[c1].id = call[c2].id
    /\ call[c1].result.items # {}
    /\ call[c1].result = call[c2].result

\* caller c is in, or has ended, a call of GET /transactions
Lists(c) == call[c].op = "listTransactions"

\* the transactions of an organization
TransactionsOf(organizationId) ==
  { t \in transactions : t.organizationId = organizationId }

\* the smaller of two numbers
Min(a, b) == IF a < b THEN a ELSE b

\* a sequence of transactions is the page [offset, offset + limit) of the rows
\* in an order of descending creation time: it is in that order, without
\* repetition, of the length the page has, and the rows it leaves out split
\* into offset rows no older than any other and rows no newer than any other
IsPageNewestFirst(page, rows, offset, limit) ==
  LET n == Cardinality(rows)
      shown == { page[i] : i \in 1..Len(page) }
      skipped == Min(offset, n)
  IN  /\ Len(page) = Min(limit, n - skipped)
      /\ shown \subseteq rows
      /\ Cardinality(shown) = Len(page)
      /\ \A i, j \in 1..Len(page) : i < j => page[i].createdAt >= page[j].createdAt
      /\ \E before \in SUBSET (rows \ shown) :
           /\ Cardinality(before) = skipped
           /\ \A b \in before, x \in rows \ before : b.createdAt >= x.createdAt
           /\ \A x \in shown, a \in rows \ (before \cup shown) :
                x.createdAt >= a.createdAt

\* the stored items of a transaction as a response shows them
StoredItemsShown(id) ==
  { [id |-> it.id, quantity |-> it.quantity, price |-> ParsePrice(it.price),
     product_id |-> it.productId, transaction_id |-> it.transactionId,
     product_name |-> products[it.productId].name] : it \in ItemsOf(id) }

C24_TransactionsAndItemsImmutable ==
  [][/\ transactions \subseteq transactions'
     /\ transactionItems \subseteq transactionItems'
     /\ \A t \in transactions' \ transactions :
          \A u \in transactions : u.id # t.id
     /\ \A it \in transactionItems' \ transactionItems :
          \A u \in transactionItems : u.id # it.id]_vars

\* C24 witness: a transaction stored with a discount code is still there with
\* its item after the discount was deleted, its product renamed and the
\* deletion of its product refused.
C24_Witness ==
  /\ \E t \in transactions :
       /\ t.discount = Some("ALL25")
       /\ \E it \in ItemsOf(t.id) :
            /\ it.productId \in DOMAIN products
            /\ products[it.productId].name # Catalog[it.productId].name
  /\ \A d \in discounts : d.code # "ALL25"
  /\ call[1].op = "deleteProduct" /\ call[1].pc = "done" /\ call[1].status = 500

\* the outcome the checks of createTransaction must give to an order of an
\* authorized caller, on the database at start: the first failing check in the
\* order empty order, missing products, unknown discount code, short stock,
\* with the values its message carries and the selects issued until then
ExpectedOutcome(body, organizationId) ==
  LET items == body.items
      asked == { items[i].product_id : i \in 1..Len(items) }
      missing == { p \in asked : \/ p \notin DOMAIN Catalog
                                 \/ Catalog[p].organizationId # organizationId }
      codeGiven == body.discount_code # ""
      codeKnown == \E d \in DiscountRows : /\ d.code = body.discount_code
                                           /\ d.organizationId = organizationId
      short == { i \in 1..Len(items) : Catalog[items[i].product_id].stock < items[i].quantity }
      lookups == IF codeGiven THEN 2 ELSE 1
  IN  IF Len(items) = 0
      THEN [status |-> 400, error |-> "EmptyOrder", queries |-> 0, missing |-> {},
            short |-> 0]
      ELSE IF missing # {}
      THEN [status |-> 404, error |-> "ProductsNotFound", queries |-> 1,
            missing |-> missing, short |-> 0]
      ELSE IF codeGiven /\ ~codeKnown
      THEN [status |-> 404, error |-> "DiscountNotFound", queries |-> 2,
            missing |-> {}, short |-> 0]
      ELSE IF short # {}
      THEN [status |-> 400, error |-> "InsufficientStock", queries |-> lookups,
            missing |-> {}, short |-> CHOOSE i \in short : \A j \in short : i <= j]
      ELSE [status |-> 201, error |-> "", queries |-> lookups, missing |-> {},
            short |-> 0]

\* the tables are as at start
NothingWritten ==
  /\ products = Catalog /\ discounts = DiscountRows
  /\ transactions = {} /\ transactionItems = {}

TokenOf(part, trimmed) == IF trimmed THEN Trim(part) ELSE part

\* the first failing check of the authorization of a header, in the order
\* missing header, malformed header, session not found, session expired, no
\* active organization; none ("") when all pass
FirstAuthFailure(headers, trimmed) ==
  IF ~IsSome(headers) THEN "MissingHeader"
  ELSE LET parts == Val(headers)
       IN  IF Len(parts) # 2 THEN "MalformedHeader"
           ELSE IF parts[1] # "Bearer" \/ TokenOf(parts[2], trimmed) = ""
           THEN "MalformedHeader"
           ELSE LET found == { x \in Sessions : x.token = TokenOf(parts[2], trimmed) }
                IN  IF found = {} THEN "SessionNotFound"
                    ELSE IF \A x \in found : x.expiresAt < Now THEN "SessionExpired"
                    ELSE IF \A x \in found : ~IsSome(x.activeOrganizationId)
                    THEN "NoActiveOrganization"
                    ELSE ""

\* the result of an authorization is exactly one of an organization id and an
\* error; the organization id is that of the session of the header's token, and
\* the error is the first failing check, or the failure of the lookup itself
AuthorizedAsChecked(q, trimmed) ==
  LET headers == q.body.headers
      failure == FirstAuthFailure(headers, trimmed)
  IN  /\ IsSome(q.organizationId) # IsSome(q.result.error)
      /\ IsSome(q.organizationId) =>
           /\ failure = ""
           /\ \E x \in Sessions :
                /\ x.token = TokenOf(Val(headers)[2], trimmed)
                /\ x.expiresAt >= Now
                /\ x.activeOrganizationId = q.organizationId
      /\ IsSome(q.result.error) =>
           \/ Val(q.result.error) = failure
           \/ /\ q.body.queryFails /\ Val(q.result.error) = "DatabaseError"
              /\ failure \notin {"MissingHeader", "MalformedHeader"}

\* C26 (as stated): getOrganizationIdFromHeaders returns exactly one of an
\* organization id and an error reason; an organization id only when the header
\* is exactly 'Bearer <token>', a session with that token exists, is not
\* expired and has an active organization; and the failures are checked in the
\* order missing header, malformed header, session not found, session expired,
\* no active organization.
C26_AuthorizedOnlyByExactToken ==
  \A c \in Callers :
    (call[c].op = "authorize" /\ call[c].pc = "done") =>
      AuthorizedAsChecked(call[c], FALSE)

\* C26 (amended): the same, with the token taken as the part after 'Bearer '
\* trimmed of the whitespace around it; a session lookup that fails is an
\* error too, reported once the header has passed its checks.
C26_AuthorizedByTrimmedToken ==
  \A c \in Callers :
    (call[c].op = "authorize" /\ call[c].pc = "done") =>
      AuthorizedAsChecked(call[c], TRUE)

\* C26 witness: a session that has expired and has no active organization was
\* refused as expired, and a header whose token is wrapped in whitespace was
\* given the organization of the session of the trimmed token.
C26_Witness ==
  \E c1, c2 \in Callers :
    /\ call[c1].op = "authorize" /\ call[c1].pc = "done"
    /\ call[c1].body.headers = Some(<<"Bearer", "tokOldLone">>)
    /\ call[c1].result.error = Some("SessionExpired")
    /\ call[c2].op = "authorize" /\ call[c2].pc = "done"
    /\ IsSome(call[c2].organizationId)
    /\ Val(call[c2].body.headers)[2] # Trim(Val(call[c2].body.headers)[2])

\* the lines of a body that ask for product p, and the quantity they ask for
\* together
LinesOf(body, p) == { i \in 1..Len(body.items) : body.items[i].product_id = p }

RequestedOf(body, p) ==
  SumSeq([i \in 1..Len(body.items) |->
            IF body.items[i].product_id = p THEN body.items[i].quantity ELSE 0])

\* C29: an order with several line items for the same product is accepted only
\* if the sum of the quantities requested for that product does not exceed the
\* product's stock; otherwise it is not accepted and nothing is deducted.
C29_DuplicateLinesCheckedTogether ==
  \A r \in Requests : \A p \in DOMAIN Catalog :
    (/\ req[r].pc = "done"
     /\ Cardinality(LinesOf(req[r].body, p)) > 1
     /\ RequestedOf(req[r].body, p) > Catalog[p].stock)
    => /\ req[r].status # 201
       /\ products = Catalog

\* the stored transaction items of product p
ItemsOfProduct(p) == { it \in transactionItems : it.productId = p }

\* C30: stock conservation: while stock is changed only by createTransaction,
\* the current stock of every product plus the quantities of all stored
\* transaction items for it equals the product's initial stock.
C30_StockConserved ==
  \A p \in DOMAIN products :
    products[p].stock + SumQuantity(ItemsOfProduct(p)) = Catalog[p].stock

\* C30 witness: two committed transactions have deducted the same product, one
\* of them with two lines for it, and its stock has gone below zero.
C30_Witness ==
  \E p \in DOMAIN products : \E it1, it2, it3 \in ItemsOfProduct(p) :
    /\ it1.transactionId # it2.transactionId
    /\ it2.transactionId = it3.transactionId /\ it2.id # it3.id
    /\ products[p].stock < 0

\* the users of the pool, and the failure of one that waited in vain
PoolUsers == { ReqProc(r) : r \in Requests } \cup { CallProc(c) : c \in Callers }

TimedOut(p) ==
  \/ \E r \in Requests :
       p = ReqProc(r) /\ req[r].pc = "done" /\ req[r].status = 500
  \/ \E c \in Callers :
       /\ p = CallProc(c) /\ call[c].pc = "done" /\ call[c].status = 401
       /\ call[c].result = [error |-> Some("DatabaseError")]

CreatedOrganizations == { o.id : o \in organization }

WithAdmin == { m.organizationId : m \in { x \in member : x.role = "admin" } }

\* C28: POST /organizations creates the organization and the creator's admin
\* membership as one unit: in every reachable state an organization created
\* through the endpoint exists if and only if its creator's admin member row
\* exists, and when the member insert has failed no organization row remains.
C28_OrganizationWithItsAdmin ==
  /\ CreatedOrganizations = WithAdmin
  /\ \A c \in Callers :
       (/\ call[c].op = "createOrganization" /\ call[c].pc = "done"
        /\ call[c].result.details = "INSERT member")
       => c \notin CreatedOrganizations

====
